---- MODULE Spec2Model ----
(***************************************************************************)
(* Model of the INRIX / NPMRDS travel-time reliability pipeline of         *)
(* apps/utils/inrix_npmrds_ritis_tools.py.                                  *)
(*                                                                         *)
(* Tables (pandas DataFrames) are sets of records, one record per row.     *)
(* A nullable cell is a sequence: NaN is the empty sequence, a value v is  *)
(* the one-element sequence <<v>>.  A measurement timestamp is a record    *)
(* [year, month, day, minute]; percentiles are kept multiplied by 100 so   *)
(* that numpy's linear interpolation stays inside the integers, and a      *)
(* ratio of two percentiles is the pair <<numerator, denominator>>.        *)
(***************************************************************************)
EXTENDS Integers, Sequences, FiniteSets, TLC

VARIABLES
    pc,                   \* position of the run in the pipeline
    main_data,            \* the raw observations, with the columns added so far
    summary_filter,       \* summary name -> the rows its summary_filter selects
    all_summaries_concat, \* the table returned by filter_group_summarize_fhwa
    calc_flags,           \* <<calc_mixed_traf_rel, calc_truck_rel>> of the call
    reliability_dfs,      \* the list of per-type tables of calculate_standard_reliabilities
    raised,               \* the exception that ended the run, "" when none
    zip_tmc_file,         \* rows of TMC_Identification.csv in the zip
    zip_raw_file,         \* rows of the raw data CSV in the zip, in file order
    road_str,             \* the searched road, a sequence of characters
    chunk_size,           \* rows per chunk of pd.read_csv
    tmc_data,             \* the road-filtered, de-duplicated TMC table
    tmc_data_parts,       \* the list of TMC tables read so far
    raw_data_chunks,      \* the list of retained chunks read so far
    reader_pos,           \* rows of the raw data CSV consumed by the reader
    input_data_folder,    \* the entries of the input folder, in os.listdir order
    folder_zips,          \* the zip files still to be looked at by the loop
    data_paths_dict,      \* data origin -> its zip_file and raw_data_file, NaN when absent
    main_tmc_data,        \* the TMC metadata of all data origins
    npmrds_geodata,       \* the NPMRDS shapefile: its CRS and its rows
    export_flags,         \* the four export_* arguments of the run
    written,              \* the output files written so far
    all_summaries_with_geoms,         \* the summaries with their geometries
    reliability_summaries_with_geoms, \* the reliability table with its geometries
    feature_server,       \* the ArcGIS layer: its features and what it can answer
    query_args,           \* cols and rename_columns_with_alias of the call
    all_objectids,        \* the sorted object IDs of the IDs-only query
    block_size,           \* the page size
    page_start,           \* the loop variable i of the loop over the later pages
    url_get,              \* the latest feature query and how the server answered it
    request_failed,       \* TRUE once the server has answered a query with an error
    geodata_parts,        \* the list of the pages received
    geodata_final,        \* the returned GeoDataFrame: its columns and object IDs
    zip_contents,         \* the zips of data_paths_dict in key order, with their two CSVs
    origins_todo,         \* the keys of data_paths_dict the batch loop has yet to read
    main_data_parts,      \* the list of the main_data of the zips read so far
    self,                 \* a time_slot or day_of_year_window instance with its attributes
    filter_returned,      \* the mask the latest get_filter call returned, NaN before
    query_start,          \* the cursor query_start of the listing download
    query_end,            \* the cursor query_end of the listing download
    ids_queried           \* the set of the object IDs of the queries performed

pipeVars == <<main_data, summary_filter, all_summaries_concat, calc_flags,
              reliability_dfs, raised>>

readVars == <<zip_tmc_file, zip_raw_file, road_str, chunk_size, tmc_data,
              tmc_data_parts, raw_data_chunks, reader_pos>>

zipVars == <<input_data_folder, folder_zips, data_paths_dict>>

runVars == <<main_tmc_data, npmrds_geodata, export_flags, written,
             all_summaries_with_geoms, reliability_summaries_with_geoms>>

arcVars == <<feature_server, query_args, all_objectids, block_size, page_start,
             url_get, request_failed, geodata_parts, geodata_final>>

otherVars == <<zipVars, runVars, arcVars>>

filterVars == <<self, filter_returned>>

listVars == <<query_start, query_end, ids_queried>>

batchVars == <<zip_contents, origins_todo, main_data_parts, filterVars, listVars>>

vars == <<pc, pipeVars, readVars, batchVars, otherVars>>

NaN == <<>>

Val(v) == <<v>>

NotNull(cell) == cell # NaN

---------------------------------------------------------------------------
(* Calendar: what pandas' dt.day_of_year, dt.day_of_week and dt.time give. *)

MinutesPerDay == 24 * 60

Months == 1 .. 12

EpochYear == 2017

\* 2017-01-01 was a Sunday; pandas counts Monday = 0 ... Sunday = 6.
EpochDayOfWeek == 6

IsLeap(y) == (y % 4 = 0 /\ y % 100 # 0) \/ y % 400 = 0

DaysInYear(y) == IF IsLeap(y) THEN 366 ELSE 365

DaysInMonth(y, m) ==
    IF m = 2 THEN (IF IsLeap(y) THEN 29 ELSE 28)
    ELSE IF m \in {4, 6, 9, 11} THEN 30 ELSE 31

RECURSIVE DaysBeforeMonth(_, _)
DaysBeforeMonth(y, m) ==
    IF m = 1 THEN 0 ELSE DaysBeforeMonth(y, m - 1) + DaysInMonth(y, m - 1)

RECURSIVE DaysBeforeYear(_)
DaysBeforeYear(y) ==
    IF y <= EpochYear THEN 0 ELSE DaysBeforeYear(y - 1) + DaysInYear(y - 1)

DayOfYear(ts) == DaysBeforeMonth(ts.year, ts.month) + ts.day

DayOfWeek(ts) == (EpochDayOfWeek + DaysBeforeYear(ts.year) + DayOfYear(ts) - 1) % 7

TimeOf(ts) == ts.minute

Stamp(y, m, d, hh, mm) == [year |-> y, month |-> m, day |-> d, minute |-> 60 * hh + mm]

---------------------------------------------------------------------------
(* fix_datetime_columns: adds day_of_week, day_of_year and time.           *)

FixRow(r) ==
    [data_origin |-> r.data_origin, tmc_code |-> r.tmc_code,
     measurement_tstamp |-> r.measurement_tstamp,
     travel_time_seconds |-> r.travel_time_seconds,
     day_of_week |-> DayOfWeek(r.measurement_tstamp),
     day_of_year |-> DayOfYear(r.measurement_tstamp),
     time |-> TimeOf(r.measurement_tstamp)]

---------------------------------------------------------------------------
(* class time_slot and class day_of_year_window.                           *)

\* time_slot.get_filter / day_of_year_window.get_filter on one value x:
\* the strict comparison first, then the two boundary flags.
MutGetFilter(w, x) ==
    LET this_filter ==
            IF w.inside_outside = "inside"
            THEN w.start < x /\ x < w.end
            ELSE x < w.start \/ w.end < x
    IN  \/ this_filter
        \/ (w.include_start /\ x = w.start)

GetFilter(w, x) ==
    LET this_filter ==
            IF w.inside_outside = "inside"
            THEN w.start < x /\ x < w.end
            ELSE x < w.start \/ w.end < x
    IN  \/ this_filter
        \/ (w.include_start /\ x = w.start)
        \/ (w.include_end /\ x = w.end)

Window(s, e, incs, ince, io, nm) ==
    [start |-> s, end |-> e, include_start |-> incs, include_end |-> ince,
     inside_outside |-> io, name |-> nm]

T0600 == 6 * 60
T1000 == 10 * 60
T1600 == 16 * 60
T2000 == 20 * 60

am_peak == Window(T0600, T1000, TRUE, FALSE, "inside", "am_peak")

afternoon_offpeak == Window(T1000, T1600, TRUE, FALSE, "inside", "midday")

pm_peak == Window(T1600, T2000, TRUE, FALSE, "inside", "pm_peak")

night == Window(T0600, T2000, FALSE, TRUE, "outside", "overnight")

all_time_slots == <<am_peak, afternoon_offpeak, pm_peak, night>>

WindowYear == 2019

all_days_window ==
    Window(DayOfYear(Stamp(WindowYear, 1, 1, 0, 0)),
           DayOfYear(Stamp(WindowYear, 12, 31, 0, 0)),
           TRUE, TRUE, "inside", "all_days")

\* add_time_slot_data_to_main_data, one row: the slot's name where its
\* filter holds, the cell as it was elsewhere.
AddTimeSlot(w, cell, t) == IF GetFilter(w, t) THEN Val(w.name) ELSE cell

\* The loop over all_time_slots: a later slot overwrites an earlier one.
RECURSIVE LabelTimeSlot(_, _, _)
LabelTimeSlot(i, cell, t) ==
    IF i > Len(all_time_slots) THEN cell
    ELSE LabelTimeSlot(i + 1, AddTimeSlot(all_time_slots[i], cell, t), t)

AddWindow(w, cell, d) == IF GetFilter(w, d) THEN Val(w.name) ELSE cell

SlotRow(r) ==
    [data_origin |-> r.data_origin, tmc_code |-> r.tmc_code,
     measurement_tstamp |-> r.measurement_tstamp,
     travel_time_seconds |-> r.travel_time_seconds,
     day_of_week |-> r.day_of_week, day_of_year |-> r.day_of_year,
     time |-> r.time,
     time_slot |-> LabelTimeSlot(1, NaN, r.time),
     date_window |-> AddWindow(all_days_window, NaN, r.day_of_year)]

---------------------------------------------------------------------------
(* calc_summaries and calc_summaries_pipeline.                             *)

RECURSIVE SortedTimes(_)
\* The travel times of a set of rows in ascending order (np.percentile sorts).
SortedTimes(rows) ==
    IF rows = {} THEN <<>>
    ELSE LET lo == CHOOSE r \in rows :
                     \A q \in rows : r.travel_time_seconds <= q.travel_time_seconds
         IN  <<lo.travel_time_seconds>> \o SortedTimes(rows \ {lo})

\* np.percentile(x, q), linear interpolation, times 100: the virtual index is
\* q/100 * (n - 1), the value lies between its two neighbours.
Percentile100(x, q) ==
    LET pos  == q * (Len(x) - 1)
        lo   == pos \div 100
        frac == pos % 100
    IN  IF frac = 0 THEN 100 * x[lo + 1]
        ELSE 100 * x[lo + 1] + frac * (x[lo + 2] - x[lo + 1])

GroupKeys(rows) == {<<r.data_origin, r.tmc_code>> : r \in rows}

GroupRows(rows, k) == {r \in rows : r.data_origin = k[1] /\ r.tmc_code = k[2]}

\* calc_summaries on one group of the groupby.
CalcSummaries(rows, k, summary_name) ==
    LET x == SortedTimes(GroupRows(rows, k))
    IN  [data_origin |-> k[1], tmc_code |-> k[2],
         count_obs |-> Len(x),
         ttime_50p |-> Percentile100(x, 50),
         ttime_80p |-> Percentile100(x, 80),
         ttime_95p |-> Percentile100(x, 95),
         summary_type |-> summary_name]

\* calc_summaries_pipeline: main_data.loc[summary_filter].groupby(...).
CalcSummariesPipeline(filtered, summary_name) ==
    {CalcSummaries(filtered, k, summary_name) : k \in GroupKeys(filtered)}

---------------------------------------------------------------------------
(* filter_group_summarize_fhwa: the six steps.  A filter that the code     *)
(* writes as np.repeat(True, ...) has its any_* flag set.                  *)

Weekdays == {0, 1, 2, 3, 4}

WeekendDays == {5, 6}

Step(nm, slots, anySlot, windows, anyWindow, days, anyDay) ==
    [summary_name |-> nm, time_slots |-> slots, any_time_slot |-> anySlot,
     date_windows |-> windows, any_date_window |-> anyWindow,
     days_of_week |-> days, any_day_of_week |-> anyDay]

StepAmPeak == Step("am_peak", {"am_peak"}, FALSE, {"all_days"}, FALSE, Weekdays, FALSE)

StepMidday == Step("midday", {"midday"}, FALSE, {"all_days"}, FALSE, Weekdays, FALSE)

StepPmPeak == Step("pm_peak", {"pm_peak"}, FALSE, {"all_days"}, FALSE, Weekdays, FALSE)

StepOvernight == Step("overnight", {"overnight"}, FALSE, {"all_days"}, FALSE, {}, TRUE)

MutStepWeekends == Step("weekends", {}, TRUE, {"all_days"}, FALSE, WeekendDays, FALSE)

StepWeekends ==
    Step("weekends", {"am_peak", "midday", "pm_peak"}, FALSE, {"all_days"}, FALSE,
         WeekendDays, FALSE)

StepAlltime == Step("alltime", {}, TRUE, {}, TRUE, {}, TRUE)

SummarySteps ==
    <<StepAmPeak, StepMidday, StepPmPeak, StepOvernight, StepWeekends, StepAlltime>>

SummaryNames == {SummarySteps[i].summary_name : i \in DOMAIN SummarySteps}

\* Series.isin on a nullable cell: NaN is in no list.
IsIn(cell, list) == NotNull(cell) /\ cell[1] \in list

\* summary_filter of one step on one row.
SummaryFilter(st, r) ==
    /\ st.any_time_slot \/ IsIn(r.time_slot, st.time_slots)
    /\ st.any_date_window \/ IsIn(r.date_window, st.date_windows)
    /\ st.any_day_of_week \/ r.day_of_week \in st.days_of_week

StepNamed(nm) ==
    SummarySteps[CHOOSE i \in DOMAIN SummarySteps : SummarySteps[i].summary_name = nm]

Filtered(rows, nm) == {r \in rows : SummaryFilter(StepNamed(nm), r)}

FilterGroupSummarizeFhwa(rows) ==
    UNION {CalcSummariesPipeline(Filtered(rows, nm), nm) : nm \in SummaryNames}

---------------------------------------------------------------------------
(* Ratios of percentiles, kept exact as <<numerator, denominator>> in      *)
(* lowest terms (travel times are positive, so denominators are too).      *)

RECURSIVE Gcd(_, _)
Gcd(a, b) == IF b = 0 THEN a ELSE Gcd(b, a % b)

Ratio(n, d) == <<n \div Gcd(n, d), d \div Gcd(n, d)>>

RatLess(a, b) == a[1] * b[2] < b[1] * a[2]

RatLeq(a, b) == a[1] * b[2] <= b[1] * a[2]

\* aggfunc='max' over a non-empty set of ratios.
MaxRatio(S) == CHOOSE r \in S : \A q \in S : RatLeq(q, r)

RECURSIVE SumCounts(_)
\* aggfunc='sum' of count_obs over summary rows.
SumCounts(S) ==
    IF S = {} THEN 0
    ELSE LET s == CHOOSE s \in S : TRUE IN s.count_obs + SumCounts(S \ {s})

---------------------------------------------------------------------------
(* Sort order of the group keys (groupby sorts its keys): TMC codes and    *)
(* data origins compare as strings.                                        *)

Origins ==
    <<"inrix", "npmrds_from_inrix_pass_vehicles", "npmrds_from_inrix_trucks",
      "npmrds_from_inrix_trucks_and_passveh">>

TmcCodes == <<"T1", "T2", "T3">>

Rank(seq, x) == CHOOSE i \in DOMAIN seq : seq[i] = x

\* (tmc_code, data_origin) of row a sorts before that of row b.
KeyBefore(a, b) ==
    \/ Rank(TmcCodes, a.tmc_code) < Rank(TmcCodes, b.tmc_code)
    \/ /\ a.tmc_code = b.tmc_code
       /\ Rank(Origins, a.data_origin) < Rank(Origins, b.data_origin)

\* table['data_origin'].values[0] of a non-empty scored table.
FirstDataOrigin(table) ==
    (CHOOSE a \in table : \A b \in table \ {a} : KeyBefore(a, b)).data_origin

---------------------------------------------------------------------------
(* calculate_standard_reliabily_mixed_traffic and                          *)
(* calculate_standard_reliability_trucks.                                  *)

ThresholdNum == 3

ThresholdDen == 2

\* Reliability < 1.5
IsReliable(reliability) == RatLess(reliability, <<ThresholdNum, ThresholdDen>>)

MutMixedSummaryTypes == {"am_peak", "midday", "pm_peak", "overnight"}

MixedSummaryTypes == {"am_peak", "midday", "pm_peak", "weekends"}

MixedOrigins == {"inrix", "npmrds_from_inrix_trucks_and_passveh"}

MixedRequired == 4

TruckSummaryTypes == {"am_peak", "midday", "pm_peak", "overnight", "weekends"}

TruckOrigins == {"npmrds_from_inrix_trucks"}

TruckRequired == 5

LOTTR_80p_by_50p(s) == Ratio(s.ttime_80p, s.ttime_50p)

MutLOTTR_95p_by_50p(s) == Ratio(s.ttime_80p, s.ttime_50p)

LOTTR_95p_by_50p(s) == Ratio(s.ttime_95p, s.ttime_50p)

\* One row of the groupby(['tmc_code','data_origin']).agg(...) of a type.
ScoreRow(data, k, lottr, type) ==
    LET g == {s \in data : s.tmc_code = k[1] /\ s.data_origin = k[2]}
    IN  [tmc_code |-> k[1], data_origin |-> k[2],
         Reliability_Type |-> Val(type),
         RawDataRows |-> Val(SumCounts(g)),
         SummaryCount |-> Val(Cardinality(g)),
         Reliability |-> Val(MaxRatio({lottr[s] : s \in g})),
         Reliable |-> Val(IsReliable(MaxRatio({lottr[s] : s \in g})))]

ScoreKeys(data) == {<<s.tmc_code, s.data_origin>> : s \in data}

MutCalculateStandardReliabilyMixedTraffic(summaries) ==
    LET mixed_traffic_data ==
            {s \in summaries : /\ s.summary_type \in MixedSummaryTypes
                               /\ s.data_origin \in MixedOrigins}
        lottr == [s \in mixed_traffic_data |-> LOTTR_80p_by_50p(s)]
    IN  {ScoreRow(mixed_traffic_data, k, lottr, "Mixed_Traffic") :
             k \in ScoreKeys(mixed_traffic_data)}

CalculateStandardReliabilyMixedTraffic(summaries) ==
    LET mixed_traffic_data ==
            {s \in summaries : /\ s.summary_type \in MixedSummaryTypes
                               /\ s.data_origin \in MixedOrigins}
        lottr == [s \in mixed_traffic_data |-> LOTTR_80p_by_50p(s)]
        agg == {ScoreRow(mixed_traffic_data, k, lottr, "Mixed_Traffic") :
                    k \in ScoreKeys(mixed_traffic_data)}
    IN  {r \in agg : r.SummaryCount = Val(MixedRequired)}

CalculateStandardReliabilityTrucks(summaries) ==
    LET truck_data ==
            {s \in summaries : /\ s.summary_type \in TruckSummaryTypes
                               /\ s.data_origin \in TruckOrigins}
        lottr == [s \in truck_data |-> LOTTR_95p_by_50p(s)]
        agg == {ScoreRow(truck_data, k, lottr, "Truck_Traffic") :
                    k \in ScoreKeys(truck_data)}
    IN  {r \in agg : r.SummaryCount = Val(TruckRequired)}

---------------------------------------------------------------------------
(* find_missing_tmc_codes and calculate_standard_reliabilities.            *)

TmcCodesOf(table) == {r.tmc_code : r \in table}

MutFindMissingTmcCodes(rows, ref_data) ==
    {c \in TmcCodesOf(ref_data) : c \notin TmcCodesOf(rows)}

FindMissingTmcCodes(rows, ref_data) ==
    {c \in TmcCodesOf(rows) : c \notin TmcCodesOf(ref_data)}

MutMissingRow(c, origin) ==
    [tmc_code |-> c, data_origin |-> origin, Reliability_Type |-> NaN,
     RawDataRows |-> Val(0), SummaryCount |-> Val(0), Reliability |-> NaN,
     Reliable |-> NaN]

\* pd.DataFrame({'tmc_code': missing, 'data_origin': origin}): every other
\* column of the concatenated table is NaN on these rows.
MissingRow(c, origin) ==
    [tmc_code |-> c, data_origin |-> origin, Reliability_Type |-> NaN,
     RawDataRows |-> NaN, SummaryCount |-> NaN, Reliability |-> NaN,
     Reliable |-> NaN]

\* The part of calculate_standard_reliabilities for one reliability type:
\* values[0] of an empty scored table raises IndexError.
CompleteType(rows, scored) ==
    IF scored = {} THEN [error |-> "IndexError", table |-> {}]
    ELSE [error |-> "",
          table |-> scored \cup {MissingRow(c, FirstDataOrigin(scored)) :
                                     c \in FindMissingTmcCodes(rows, scored)}]

\* The whole function: the list reliability_dfs and the exception that
\* stopped it, if any; pd.concat of an empty list raises ValueError.
CalculateStandardReliabilities(summaries, rows, calc_mixed_traf_rel, calc_truck_rel) ==
    LET mixed == CompleteType(rows, CalculateStandardReliabilyMixedTraffic(summaries))
        truck == CompleteType(rows, CalculateStandardReliabilityTrucks(summaries))
        afterMixed == IF calc_mixed_traf_rel /\ mixed.error = ""
                      THEN <<mixed.table>> ELSE <<>>
    IN  IF calc_mixed_traf_rel /\ mixed.error # ""
        THEN [error |-> mixed.error, dfs |-> <<>>]
        ELSE IF calc_truck_rel /\ truck.error # ""
        THEN [error |-> truck.error, dfs |-> afterMixed]
        ELSE IF calc_truck_rel
        THEN [error |-> "", dfs |-> Append(afterMixed, truck.table)]
        ELSE IF afterMixed = <<>>
        THEN [error |-> "ValueError", dfs |-> <<>>]
        ELSE [error |-> "", dfs |-> afterMixed]

---------------------------------------------------------------------------
(* read_csv_get_specific_road_segments.  Road names and the searched road  *)
(* are sequences of characters.                                            *)

\* road.str.contains(road_str) for a pattern of plain characters.
Contains(road, pattern) ==
    \E i \in 0 .. Len(road) - Len(pattern) :
        SubSeq(road, i + 1, i + Len(pattern)) = pattern

\* tmc_data['road'].fillna('')
FillRoad(t) ==
    [tmc_code |-> t.tmc, road |-> IF NotNull(t.road) THEN t.road ELSE Val(<<>>),
     intersection_ |-> t.intersection, active_end_date |-> t.active_end_date,
     data_origin |-> t.data_origin]

\* tmc_data.query('road.str.contains(road_str)')
RoadQuery(table, pattern) == {t \in table : Contains(t.road[1], pattern)}

\* The rows of one TMC code sorted by active_end_date.
RECURSIVE SortByEndDate(_)
SortByEndDate(rows) ==
    IF rows = {} THEN <<>>
    ELSE LET lo == CHOOSE r \in rows :
                     \A q \in rows : r.active_end_date <= q.active_end_date
         IN  <<lo>> \o SortByEndDate(rows \ {lo})

\* GroupBy.last() on one column: the last value that is not null.
RECURSIVE LastNotNull(_, _)
LastNotNull(cells, i) ==
    IF i = 0 THEN NaN
    ELSE IF NotNull(cells[i]) THEN cells[i] ELSE LastNotNull(cells, i - 1)

\* sort_values(['tmc_code','active_end_date']) then groupby('tmc_code').last()
DedupeTmc(table) ==
    { LET g == SortByEndDate({t \in table : t.tmc_code = c})
          n == Len(g)
      IN  [tmc_code |-> c,
           road |-> LastNotNull([i \in 1 .. n |-> g[i].road], n),
           intersection_ |-> LastNotNull([i \in 1 .. n |-> g[i].intersection_], n),
           active_end_date |-> g[n].active_end_date,
           data_origin |-> g[n].data_origin]
      : c \in TmcCodesOf(table) }

ReadTmcData(file, origin, pattern) ==
    DedupeTmc(RoadQuery({FillRoad([t EXCEPT !.data_origin = origin]) : t \in file},
                        pattern))

\* raw_data.merge(tmc_data_sub, how='left', on='tmc_code') on one row: the
\* TMC table has one row per code, so a raw row meets at most one of them.
\* The row keeps its other columns; line is its row number in the file.
MergeLeft(raw, line, table) ==
    IF \E t \in table : t.tmc_code = raw.tmc_code
    THEN LET t == CHOOSE t \in table : t.tmc_code = raw.tmc_code
         IN  [line |-> line, tmc_code |-> raw.tmc_code, road |-> t.road,
              data_origin |-> Val(t.data_origin)] @@ raw
    ELSE [line |-> line, tmc_code |-> raw.tmc_code, road |-> NaN, data_origin |-> NaN]
             @@ raw

MutKeepRow(r) == TRUE

\* raw_data.loc[raw_data.road.notnull()]
KeepRow(r) == NotNull(r.road)

RECURSIVE SelectRows(_)
SelectRows(rows) ==
    IF rows = <<>> THEN <<>>
    ELSE (IF KeepRow(Head(rows)) THEN <<Head(rows)>> ELSE <<>>) \o SelectRows(Tail(rows))

MutReadChunk(file, pos, size, table) ==
    LET last == IF pos + size < Len(file) THEN pos + size ELSE Len(file)
        merged == [i \in 1 .. last - pos |-> MergeLeft(file[last + 1 - i], last + 1 - i, table)]
    IN  SelectRows(merged)

\* One iteration of the loop over the chunks of the reader.
ReadChunk(file, pos, size, table) ==
    LET last == IF pos + size < Len(file) THEN pos + size ELSE Len(file)
        merged == [i \in 1 .. last - pos |-> MergeLeft(file[pos + i], pos + i, table)]
    IN  SelectRows(merged)

---------------------------------------------------------------------------
(* Inputs.  main_data as read_batch_of_raw_data returns it: at most one    *)
(* row per (data_origin, tmc_code, measurement_tstamp).                    *)

Obs(origin, tmc, ts, tt) ==
    [data_origin |-> origin, tmc_code |-> tmc, measurement_tstamp |-> ts,
     travel_time_seconds |-> tt]

\* Tuesday 2019-01-01, Wednesday 2019-01-02, Saturday 2019-01-05,
\* Sunday 2019-01-06, Thursday 2020-12-31 (day 366 of a leap year).
SampleRows ==
    { Obs("inrix", "T1", Stamp(2019, 1, 1, 6, 0), 10),
      Obs("inrix", "T1", Stamp(2019, 1, 2, 9, 59), 110),
      Obs("inrix", "T1", Stamp(2019, 1, 1, 10, 0), 10),
      Obs("inrix", "T1", Stamp(2019, 1, 1, 16, 0), 10),
      Obs("inrix", "T1", Stamp(2019, 1, 5, 12, 0), 10),
      Obs("inrix", "T1", Stamp(2019, 1, 6, 19, 59), 210),
      Obs("inrix", "T1", Stamp(2019, 1, 1, 20, 0), 10),
      Obs("npmrds_from_inrix_trucks", "T2", Stamp(2019, 1, 1, 6, 0), 20),
      Obs("npmrds_from_inrix_trucks", "T2", Stamp(2019, 1, 1, 10, 0), 20),
      Obs("npmrds_from_inrix_trucks", "T2", Stamp(2019, 1, 1, 16, 0), 20),
      Obs("npmrds_from_inrix_trucks", "T2", Stamp(2019, 1, 1, 20, 0), 20),
      Obs("npmrds_from_inrix_trucks", "T2", Stamp(2019, 1, 5, 5, 59), 70),
      Obs("npmrds_from_inrix_trucks", "T2", Stamp(2019, 1, 5, 12, 0), 20),
      Obs("inrix", "T2", Stamp(2019, 1, 1, 6, 0), 10),
      Obs("npmrds_from_inrix_pass_vehicles", "T3", Stamp(2020, 12, 31, 7, 0), 10) }

MaxRows == 9

Inputs == {S \in SUBSET SampleRows : S # {} /\ Cardinality(S) <= MaxRows}

\* The analysis variables before any analysis step has run.
PipeIdle ==
    /\ summary_filter = [nm \in SummaryNames |-> {}]
    /\ all_summaries_concat = {}
    /\ calc_flags = <<FALSE, FALSE>>
    /\ reliability_dfs = <<>>
    /\ raised = ""

\* The reader's variables when no zip is being read.
ReadIdle ==
    /\ zip_tmc_file = {}
    /\ zip_raw_file = <<>>
    /\ road_str = <<>>
    /\ chunk_size = 1
    /\ tmc_data = {}
    /\ tmc_data_parts = <<>>
    /\ raw_data_chunks = <<>>
    /\ reader_pos = 0

\* The cursors of the listing download when none is under way.
ListIdle ==
    /\ query_start = 0
    /\ query_end = 0
    /\ ids_queried = {}

\* The batch reader's variables when no batch is being read.
BatchIdle ==
    /\ zip_contents = <<>>
    /\ origins_todo = <<>>
    /\ main_data_parts = <<>>
    /\ self = <<>>
    /\ filter_returned = <<>>
    /\ ListIdle

\* The folder scan's variables when no folder is being scanned.
ZipIdle ==
    /\ input_data_folder = <<>>
    /\ folder_zips = <<>>
    /\ data_paths_dict = <<>>

\* The variables of a whole run when no run is under way.
RunIdle ==
    /\ main_tmc_data = {}
    /\ npmrds_geodata = <<>>
    /\ export_flags = <<>>
    /\ written = {}
    /\ all_summaries_with_geoms = {}
    /\ reliability_summaries_with_geoms = {}

\* The download's variables when no layer is being downloaded.
ArcIdle ==
    /\ feature_server = <<>>
    /\ query_args = <<>>
    /\ all_objectids = <<>>
    /\ block_size = 0
    /\ page_start = 0
    /\ url_get = <<>>
    /\ request_failed = FALSE
    /\ geodata_parts = <<>>
    /\ geodata_final = <<>>

OtherIdle ==
    /\ ZipIdle
    /\ RunIdle
    /\ ArcIdle

Init ==
    /\ pc = "fix"
    /\ main_data \in Inputs
    /\ PipeIdle
    /\ ReadIdle
    /\ BatchIdle
    /\ OtherIdle

---------------------------------------------------------------------------
(* The steps of start_to_finish_fhwa_summaries_and_reliability.            *)

DoFixDatetimeColumns ==
    /\ pc = "fix"
    /\ main_data' = {FixRow(r) : r \in main_data}
    /\ pc' = "slots"
    /\ UNCHANGED <<summary_filter, all_summaries_concat, calc_flags,
                   reliability_dfs, raised, readVars, batchVars, otherVars>>

DoDefineStandardFhwaTimeslots ==
    /\ pc = "slots"
    /\ main_data' = {SlotRow(r) : r \in main_data}
    /\ pc' = "summarize"
    /\ UNCHANGED <<summary_filter, all_summaries_concat, calc_flags,
                   reliability_dfs, raised, readVars, batchVars, otherVars>>

DoFilterGroupSummarizeFhwa ==
    /\ pc = "summarize"
    /\ summary_filter' = [nm \in SummaryNames |-> Filtered(main_data, nm)]
    /\ all_summaries_concat' = FilterGroupSummarizeFhwa(main_data)
    /\ pc' = "reliability"
    /\ UNCHANGED <<main_data, calc_flags, reliability_dfs, raised, readVars, batchVars, otherVars>>

DoCalculateStandardReliabilities ==
    /\ pc = "reliability"
    /\ \E calc_mixed_traf_rel \in BOOLEAN, calc_truck_rel \in BOOLEAN :
          LET res == CalculateStandardReliabilities(all_summaries_concat, main_data,
                                                    calc_mixed_traf_rel, calc_truck_rel)
          IN  /\ calc_flags' = <<calc_mixed_traf_rel, calc_truck_rel>>
              /\ reliability_dfs' = res.dfs
              /\ raised' = res.error
              /\ pc' = IF res.error = "" THEN "done" ELSE "error"
    /\ UNCHANGED <<main_data, summary_filter, all_summaries_concat, readVars, batchVars,
                   otherVars>>

Next ==
    \/ DoFixDatetimeColumns
    \/ DoDefineStandardFhwaTimeslots
    \/ DoFilterGroupSummarizeFhwa
    \/ DoCalculateStandardReliabilities

Spec == Init /\ [][Next]_vars

---------------------------------------------------------------------------
(* Time bucketing alone, one observation at a time: every day of a common  *)
(* and of a leap year at the sample times, and every minute of the sample  *)
(* days.                                                                   *)

SlotYears == {2019, 2020}

SampleTimes ==
    {0, T0600 - 1, T0600, T0600 + 1, T1000 - 1, T1000, T1600 - 1, T1600,
     T2000 - 1, T2000, T2000 + 1, MinutesPerDay - 1}

SampleDays == {<<2019, 1, 1>>, <<2019, 12, 31>>, <<2020, 2, 29>>, <<2020, 12, 31>>}

AllDays ==
    {<<y, m, d>> \in SlotYears \X Months \X (1 .. 31) : d <= DaysInMonth(y, m)}

SlotStamps ==
    {[year |-> x[1][1], month |-> x[1][2], day |-> x[1][3], minute |-> x[2]] :
        x \in (AllDays \X SampleTimes) \cup (SampleDays \X (0 .. MinutesPerDay - 1))}

InitSlots ==
    /\ pc = "fix"
    /\ \E ts \in SlotStamps : main_data = {Obs("inrix", "T1", ts, 10)}
    /\ PipeIdle
    /\ ReadIdle
    /\ BatchIdle
    /\ OtherIdle

NextSlots ==
    \/ DoFixDatetimeColumns
    \/ DoDefineStandardFhwaTimeslots

SpecSlots == InitSlots /\ [][NextSlots]_vars

---------------------------------------------------------------------------
(* Reading one zip: read_csv_get_specific_road_segments.                   *)

Tmc(code, road, intersection, end) ==
    [tmc |-> code, road |-> road, intersection |-> intersection,
     active_end_date |-> end, data_origin |-> ""]

SampleTmcRows ==
    { Tmc("T1", Val(<<"I", "1", "0">>), Val("A"), 1),
      Tmc("T1", Val(<<"U", "S", "1">>), NaN, 2),
      Tmc("T2", Val(<<"I", "1", "0">>), Val("B"), 1),
      Tmc("T3", NaN, NaN, 1) }

SampleRoadStrs == {<<>>, <<"I", "1">>, <<"U", "S">>}

RawCodes == {"T1", "T2", "T3", "T9"}

MaxCsvRows == 3

MaxChunkSize == 2

ReadOrigin == "inrix"

RECURSIVE SeqsUpTo(_, _)
SeqsUpTo(S, n) ==
    IF n = 0 THEN {<<>>}
    ELSE SeqsUpTo(S, n - 1) \cup
         {Append(q, x) : q \in {q \in SeqsUpTo(S, n - 1) : Len(q) = n - 1}, x \in S}

InitRead ==
    /\ pc = "open"
    /\ zip_tmc_file \in SUBSET SampleTmcRows
    /\ zip_raw_file \in SeqsUpTo({[tmc_code |-> c] : c \in RawCodes}, MaxCsvRows)
    /\ road_str \in SampleRoadStrs
    /\ chunk_size \in 1 .. MaxChunkSize
    /\ tmc_data = {}
    /\ tmc_data_parts = <<>>
    /\ raw_data_chunks = <<>>
    /\ reader_pos = 0
    /\ main_data = {}
    /\ PipeIdle
    /\ BatchIdle
    /\ OtherIdle

\* Opens the zip, reads, filters and de-duplicates TMC_Identification.csv.
DoReadTmcData ==
    /\ pc = "open"
    /\ tmc_data' = ReadTmcData(zip_tmc_file, ReadOrigin, road_str)
    /\ tmc_data_parts' = Append(tmc_data_parts, tmc_data')
    /\ pc' = "chunks"
    /\ UNCHANGED <<zip_tmc_file, zip_raw_file, road_str, chunk_size,
                   raw_data_chunks, reader_pos, pipeVars, otherVars, batchVars>>

\* One chunk of the raw data CSV.
DoReadChunk ==
    /\ pc = "chunks"
    /\ reader_pos < Len(zip_raw_file)
    /\ raw_data_chunks' =
           Append(raw_data_chunks, ReadChunk(zip_raw_file, reader_pos, chunk_size, tmc_data))
    /\ reader_pos' = IF reader_pos + chunk_size < Len(zip_raw_file)
                     THEN reader_pos + chunk_size ELSE Len(zip_raw_file)
    /\ UNCHANGED <<pc, zip_tmc_file, zip_raw_file, road_str, chunk_size, tmc_data,
                   tmc_data_parts, pipeVars, otherVars, batchVars>>

\* The reader is exhausted: the function returns its two lists.
DoReturnChunks ==
    /\ pc = "chunks"
    /\ reader_pos = Len(zip_raw_file)
    /\ pc' = "read_done"
    /\ UNCHANGED <<readVars, batchVars, pipeVars, otherVars>>

NextRead ==
    \/ DoReadTmcData
    \/ DoReadChunk
    \/ DoReturnChunks

SpecRead == InitRead /\ [][NextRead]_vars

---------------------------------------------------------------------------
(* get_filter as a method: the instance keeps the mask of its first call   *)
(* in the attribute ts_filter (doy_filter for a day_of_year_window).  A    *)
(* mask is a sequence of booleans, one for each row of the main_data it    *)
(* was computed from.                                                      *)

FilterRow(t, d) == [time |-> t, day_of_year |-> d]

\* The column the instance compares: 'time' or 'day_of_year'.
FilterColumn(inst, r) == IF inst.class = "time_slot" THEN r.time ELSE r.day_of_year

\* The body of the except branch: the mask of the rows of main_data.
ComputeFilter(inst, rows) ==
    [i \in DOMAIN rows |-> GetFilter(inst.window, FilterColumn(inst, rows[i]))]

\* get_filter(self, main_data): the stored mask when the attribute exists,
\* else the computed mask, which is stored.
GetFilterCall(inst, rows) ==
    IF inst.filter # NaN
    THEN [self |-> inst, returned |-> inst.filter[1]]
    ELSE [self |-> [inst EXCEPT !.filter = Val(ComputeFilter(inst, rows))],
          returned |-> ComputeFilter(inst, rows)]

\* The instances of define_standard_fhwa_timeslots, as __init__ leaves them.
SampleInstances ==
    {[class |-> "time_slot", window |-> w, filter |-> NaN] :
        w \in {all_time_slots[i] : i \in DOMAIN all_time_slots}}
    \cup {[class |-> "day_of_year_window", window |-> all_days_window, filter |-> NaN]}

MaxFilterRows == 2

FilterDatasets ==
    SeqsUpTo({FilterRow(t, d) : t \in {T0600 - 1, T0600, T2000}, d \in {1, 366}},
             MaxFilterRows)

InitFilter ==
    /\ pc = "instance"
    /\ self \in SampleInstances
    /\ filter_returned = NaN
    /\ ListIdle
    /\ main_data = <<>>
    /\ zip_contents = <<>>
    /\ origins_todo = <<>>
    /\ main_data_parts = <<>>
    /\ PipeIdle
    /\ ReadIdle
    /\ OtherIdle

\* One call of get_filter with some main_data.
DoGetFilter ==
    /\ pc \in {"instance", "filtered"}
    /\ \E rows \in FilterDatasets :
          /\ main_data' = rows
          /\ self' = GetFilterCall(self, rows).self
          /\ filter_returned' = Val(GetFilterCall(self, rows).returned)
    /\ pc' = "filtered"
    /\ UNCHANGED <<summary_filter, all_summaries_concat, calc_flags, reliability_dfs, raised,
                   readVars, zip_contents, origins_todo, main_data_parts, listVars,
                   otherVars>>

NextFilter == DoGetFilter

SpecFilter == InitFilter /\ [][NextFilter]_vars

---------------------------------------------------------------------------
(* read_batch_of_raw_data and read_one_set_of_raw_data.  Here main_data    *)
(* and its parts are sequences of rows, in the order of the DataFrame; a   *)
(* row of a raw data CSV has a tmc_code, a measurement_tstamp and a speed. *)

\* pd.concat(parts, ignore_index=True) of a list of tables.
RECURSIVE PdConcat(_)
PdConcat(parts) ==
    IF parts = <<>> THEN <<>> ELSE Head(parts) \o PdConcat(Tail(parts))

\* Two rows are duplicates in subset=['data_origin','tmc_code','measurement_tstamp'].
SameKey(a, b) ==
    /\ a.data_origin = b.data_origin
    /\ a.tmc_code = b.tmc_code
    /\ a.measurement_tstamp = b.measurement_tstamp

RECURSIVE MutDropDuplicates(_)
MutDropDuplicates(rows) ==
    IF rows = <<>> THEN <<>>
    ELSE LET rest == MutDropDuplicates(Tail(rows))
         IN  IF \E i \in DOMAIN rest : SameKey(rest[i], Head(rows))
             THEN rest ELSE <<Head(rows)>> \o rest

\* drop_duplicates(subset=...) with the default keep='first'.
RECURSIVE DropDuplicates(_)
DropDuplicates(rows) ==
    IF rows = <<>> THEN <<>>
    ELSE LET init == DropDuplicates(SubSeq(rows, 1, Len(rows) - 1))
             last == rows[Len(rows)]
         IN  IF \E i \in DOMAIN init : SameKey(init[i], last)
             THEN init ELSE Append(init, last)

\* main_data['speed'].notna()
SpeedNotNa(r) == NotNull(r.speed)

Raw(code, ts, speed) == [tmc_code |-> code, measurement_tstamp |-> ts, speed |-> speed]

\* Two readings of T1 at the same time stamp, one of them without a speed, a
\* later reading of T1, a reading of a segment without a road name and one
\* of a segment that TMC_Identification.csv does not list.
SampleRawRows ==
    { Raw("T1", 1, Val(50)), Raw("T1", 1, NaN), Raw("T1", 2, Val(50)),
      Raw("T3", 1, Val(50)), Raw("T9", 1, Val(50)) }

MaxBatchRows == 3

\* The zip of the INRIX data, with a raw data CSV of at least one row.
InrixZips ==
    {[data_origin |-> "inrix", tmc |-> SampleTmcRows, raw |-> q] :
        q \in SeqsUpTo(SampleRawRows, MaxBatchRows) \ {<<>>}}

\* The zip of the truck data, with the key of a T1 reading of the INRIX data.
TruckZip ==
    [data_origin |-> "npmrds_from_inrix_trucks",
     tmc |-> {t \in SampleTmcRows : t.tmc \in {"T1", "T2"}},
     raw |-> <<Raw("T1", 1, Val(40)), Raw("T2", 1, NaN), Raw("T1", 1, Val(45))>>]

BatchRoadStrs == {<<>>, <<"I", "1">>}

\* The keys of data_paths_dict in the order the folder scan inserted them.
BatchOrigins ==
    {<<>>, <<"inrix">>, <<"inrix", "npmrds_from_inrix_trucks">>,
     <<"npmrds_from_inrix_trucks", "inrix">>}

\* data_paths_dict[data_origin]: the zip found for the data origin.
ZipOf(data_origin) ==
    CHOOSE z \in {zip_contents[i] : i \in DOMAIN zip_contents} : z.data_origin = data_origin

InitBatch ==
    /\ pc = "batch"
    /\ origins_todo \in BatchOrigins
    /\ \E z \in InrixZips :
           zip_contents = [i \in DOMAIN origins_todo |->
                              IF origins_todo[i] = "inrix" THEN z ELSE TruckZip]
    /\ road_str \in BatchRoadStrs
    /\ chunk_size \in 1 .. MaxChunkSize
    /\ main_data_parts = <<>>
    /\ self = <<>>
    /\ filter_returned = <<>>
    /\ ListIdle
    /\ main_data = <<>>
    /\ zip_tmc_file = {}
    /\ zip_raw_file = <<>>
    /\ tmc_data = {}
    /\ tmc_data_parts = <<>>
    /\ raw_data_chunks = <<>>
    /\ reader_pos = 0
    /\ PipeIdle
    /\ OtherIdle

\* The next key of data_paths_dict: read_one_set_of_raw_data opens its zip
\* and reads, filters and de-duplicates TMC_Identification.csv.
DoReadOneSet ==
    /\ pc = "batch"
    /\ origins_todo # <<>>
    /\ LET this_data_origin == Head(origins_todo)
       IN  /\ zip_tmc_file' = ZipOf(this_data_origin).tmc
           /\ zip_raw_file' = ZipOf(this_data_origin).raw
           /\ tmc_data' = ReadTmcData(zip_tmc_file', this_data_origin, road_str)
    /\ raw_data_chunks' = <<>>
    /\ reader_pos' = 0
    /\ pc' = "chunks"
    /\ UNCHANGED <<road_str, chunk_size, tmc_data_parts, pipeVars, batchVars, otherVars>>

\* The reader is exhausted: read_one_set_of_raw_data concatenates the chunks,
\* drops the duplicates and returns; the batch loop appends the two results.
DoConcatOneSet ==
    /\ pc = "chunks"
    /\ origins_todo # <<>>
    /\ reader_pos = Len(zip_raw_file)
    /\ main_data_parts' = Append(main_data_parts, DropDuplicates(PdConcat(raw_data_chunks)))
    /\ tmc_data_parts' = Append(tmc_data_parts, tmc_data)
    /\ origins_todo' = Tail(origins_todo)
    /\ pc' = "batch"
    /\ UNCHANGED <<zip_tmc_file, zip_raw_file, road_str, chunk_size, tmc_data,
                   raw_data_chunks, reader_pos, zip_contents, filterVars, listVars, pipeVars,
                   otherVars>>

\* After the loop: concatenation, drop_duplicates and the speed filter.
\* pd.concat of an empty list of parts raises ValueError.
DoConcatBatch ==
    /\ pc = "batch"
    /\ origins_todo = <<>>
    /\ IF main_data_parts = <<>>
       THEN /\ raised' = "ValueError"
            /\ pc' = "error"
            /\ UNCHANGED <<main_data, main_tmc_data>>
       ELSE /\ main_data' = SelectSeq(DropDuplicates(PdConcat(main_data_parts)), SpeedNotNa)
            /\ main_tmc_data' = UNION {tmc_data_parts[i] : i \in DOMAIN tmc_data_parts}
            /\ pc' = "batch_done"
            /\ UNCHANGED raised
    /\ UNCHANGED <<summary_filter, all_summaries_concat, calc_flags, reliability_dfs,
                   readVars, batchVars, zipVars, arcVars, npmrds_geodata, export_flags,
                   written, all_summaries_with_geoms, reliability_summaries_with_geoms>>

NextBatch ==
    \/ DoReadOneSet
    \/ DoReadChunk
    \/ DoConcatOneSet
    \/ DoConcatBatch

SpecBatch == InitBatch /\ [][NextBatch]_vars

---------------------------------------------------------------------------
(* which_zip_is_which_data_source.  A file name is a sequence of           *)
(* characters, a line of Contents.txt a sequence of words, a zip file a    *)
(* record of its member names (namelist order) and the lines of its        *)
(* Contents.txt.                                                           *)

\* The description each data origin is searched by: under re.match,
\* '.*X.*' holds when X occurs somewhere in the line.
dict_for_origin_match ==
    [o \in {Origins[i] : i \in DOMAIN Origins} |->
        CASE o = "inrix" -> <<"INRIX", "TMC">>
          [] o = "npmrds_from_inrix_pass_vehicles" ->
                 <<"NPMRDS", "from", "INRIX", "(Passenger", "vehicles)">>
          [] o = "npmrds_from_inrix_trucks" ->
                 <<"NPMRDS", "from", "INRIX", "(Trucks)">>
          [] o = "npmrds_from_inrix_trucks_and_passveh" ->
                 <<"NPMRDS", "from", "INRIX", "(Trucks", "and", "passenger", "vehicles)">>]

RegexMatch(description, line) == Contains(line, description)

\* re.compile(".*zip$").match
EndsWithZip(name) ==
    Len(name) >= 3 /\ SubSeq(name, Len(name) - 2, Len(name)) = <<"z", "i", "p">>

IsFolderZip(f) == f.is_file /\ EndsWithZip(f.name)

\* folder_files, then folder_zips.
ListZips(folder) == SelectSeq(folder, IsFolderZip)

MutIsRawDataFile(member) == member # "Contents.txt"

IsRawDataFile(member) == member # "Contents.txt" /\ member # "TMC_Identification.csv"

\* content_file.readline(): the first line, empty at the end of the file.
ReadLine(contents) == IF contents = <<>> THEN <<>> ELSE Head(contents)

\* One iteration of the loop over folder_zips.
ScanZip(dict, z) ==
    LET raw  == SelectSeq(z.namelist, IsRawDataFile)
        line == ReadLine(z.contents)
    IN  IF \A i \in DOMAIN z.namelist : z.namelist[i] # "Contents.txt"
        THEN [error |-> "", dict |-> dict]
        ELSE IF raw = <<>>
        THEN [error |-> "IndexError", dict |-> dict]
        ELSE [error |-> "",
              dict |-> [o \in DOMAIN dict |->
                          IF RegexMatch(dict_for_origin_match[o], line)
                          THEN Val([zip_file |-> z.name, raw_data_file |-> Head(raw)])
                          ELSE dict[o]]]

ZipName(stem) == <<stem, ".", "z", "i", "p">>

File(name, isfile, namelist, contents) ==
    [name |-> name, is_file |-> isfile, namelist |-> namelist, contents |-> contents]

\* RITIS exports of the four origins (two of them INRIX), a zip with two data
\* CSVs, zips that are no export of a known origin, a text file and a
\* directory whose name ends in zip.
SampleFiles ==
    { File(ZipName("a"), TRUE, <<"Contents.txt", "TMC_Identification.csv", "a.csv">>,
           << <<"INRIX", "TMC", "data">> >>),
      File(ZipName("b"), TRUE, <<"b.csv", "Contents.txt", "TMC_Identification.csv">>,
           << <<"NPMRDS", "from", "INRIX", "(Trucks)">> >>),
      File(ZipName("c"), TRUE, <<"Contents.txt", "c.csv", "TMC_Identification.csv">>,
           << <<"NPMRDS", "from", "INRIX", "(Trucks", "and", "passenger", "vehicles)">> >>),
      File(ZipName("d"), TRUE, <<"TMC_Identification.csv", "d.csv", "Contents.txt">>,
           << <<"NPMRDS", "from", "INRIX", "(Passenger", "vehicles)">> >>),
      File(ZipName("e"), TRUE, <<"Contents.txt", "TMC_Identification.csv", "e.csv">>,
           << <<"INRIX", "TMC", "data">> >>),
      File(ZipName("f"), TRUE, <<"Contents.txt", "x.csv", "y.csv">>,
           << <<"NPMRDS", "from", "INRIX", "(Trucks)">>, <<"INRIX", "TMC">> >>),
      File(ZipName("g"), TRUE, <<"g.csv", "TMC_Identification.csv">>, <<>>),
      File(ZipName("h"), TRUE, <<"Contents.txt", "TMC_Identification.csv", "h.csv">>,
           << <<"HERE", "data">>, <<"INRIX", "TMC">> >>),
      File(ZipName("i"), TRUE, <<"Contents.txt", "TMC_Identification.csv">>,
           << <<"INRIX", "TMC", "data">> >>),
      File(ZipName("j"), TRUE, <<"Contents.txt", "j.csv">>, <<>>),
      File(<<"n", ".", "t", "x", "t">>, TRUE, <<>>, <<>>),
      File(ZipName("k"), FALSE, <<>>, <<>>) }

MaxFolder == 3

\* A folder holds each file name once.
Folders ==
    {q \in SeqsUpTo(SampleFiles, MaxFolder) :
        \A i, j \in DOMAIN q : i # j => q[i] # q[j]}

InitZip ==
    /\ pc = "scan"
    /\ input_data_folder \in Folders
    /\ folder_zips = <<>>
    /\ data_paths_dict = <<>>
    /\ main_data = {}
    /\ PipeIdle
    /\ ReadIdle
    /\ BatchIdle
    /\ RunIdle
    /\ ArcIdle

\* os.listdir, the two filters and the empty output dictionary.
DoListZips ==
    /\ pc = "scan"
    /\ folder_zips' = ListZips(input_data_folder)
    /\ data_paths_dict' = [o \in DOMAIN dict_for_origin_match |-> NaN]
    /\ pc' = "zips"
    /\ UNCHANGED <<input_data_folder, pipeVars, readVars, batchVars, runVars, arcVars>>

\* The body of the loop for the next zip file.
DoScanZip ==
    /\ pc = "zips"
    /\ folder_zips # <<>>
    /\ LET res == ScanZip(data_paths_dict, Head(folder_zips))
       IN  /\ data_paths_dict' = res.dict
           /\ raised' = res.error
           /\ pc' = IF res.error = "" THEN "zips" ELSE "error"
    /\ folder_zips' = Tail(folder_zips)
    /\ UNCHANGED <<input_data_folder, main_data, summary_filter, all_summaries_concat,
                   calc_flags, reliability_dfs, readVars, batchVars, runVars, arcVars>>

DoReturnPaths ==
    /\ pc = "zips"
    /\ folder_zips = <<>>
    /\ pc' = "zip_done"
    /\ UNCHANGED <<zipVars, pipeVars, readVars, batchVars, runVars, arcVars>>

NextZip ==
    \/ DoListZips
    \/ DoScanZip
    \/ DoReturnPaths

SpecZip == InitZip /\ [][NextZip]_vars

---------------------------------------------------------------------------
(* add_geometries_to_summaries and make_link.  A geometry is a record: a   *)
(* shape of the shapefile with its CRS, or a straight line between two     *)
(* (longitude, latitude) points.                                           *)

TargetCrs == "epsg:4326"

\* npmrds_geodata[['tmc_code','geometry']].to_crs('epsg:4326'): the same
\* shapes in the target CRS; a missing geometry stays missing.
ToCrs(g) ==
    [tmc_code |-> g.tmc_code,
     geometry |-> IF NotNull(g.geometry)
                  THEN Val([shape |-> g.geometry[1].shape, crs |-> TargetCrs])
                  ELSE NaN]

\* The geometry column after the left merge on tmc_code: one value per
\* shapefile row of the code, missing when there is none.
MergedGeometries(s, shapes) ==
    IF \E g \in shapes : g.tmc_code = s.tmc_code
    THEN {g.geometry : g \in {g \in shapes : g.tmc_code = s.tmc_code}}
    ELSE {NaN}

\* The four coordinate columns after the left merge of temp_geoms with
\* main_tmc_data on (data_origin, tmc_code).
MergedCoordinates(s, tmc_table) ==
    LET hits == {m \in tmc_table :
                    m.data_origin = s.data_origin /\ m.tmc_code = s.tmc_code}
    IN  IF hits # {}
        THEN {[start_longitude |-> m.start_longitude, start_latitude |-> m.start_latitude,
               end_longitude |-> m.end_longitude, end_latitude |-> m.end_latitude] :
                 m \in hits}
        ELSE {[start_longitude |-> NaN, start_latitude |-> NaN,
               end_longitude |-> NaN, end_latitude |-> NaN]}

\* make_link: the line from the start point to the end point, each point
\* (longitude, latitude); the GeoDataFrame gives it the target CRS.
MakeLink(df_row) ==
    [start |-> <<df_row.start_longitude, df_row.start_latitude>>,
     end   |-> <<df_row.end_longitude, df_row.end_latitude>>,
     crs   |-> TargetCrs]

\* geom_final and geom_final_type of one merged row.
GeomFinal(s, geometry, geometry_simplified) ==
    s @@ [geom_final |-> IF geometry = NaN THEN Val(geometry_simplified) ELSE geometry,
          geom_final_type |-> IF geometry = NaN THEN "simplified_tmc_shape"
                              ELSE "original_tmc_shape"]

\* The whole function; to_crs of a shapefile without CRS raises ValueError.
AddGeometriesToSummaries(summarized_data, tmc_table, geodata) ==
    IF geodata.crs = NaN
    THEN [error |-> "ValueError", table |-> {}]
    ELSE LET shapes == {ToCrs(g) : g \in geodata.rows}
         IN  [error |-> "",
              table |-> UNION { {GeomFinal(s, g, MakeLink(c)) :
                                    g \in MergedGeometries(s, shapes),
                                    c \in MergedCoordinates(s, tmc_table)} :
                                s \in summarized_data }]

---------------------------------------------------------------------------
(* A whole run of start_to_finish_fhwa_summaries_and_reliability           *)
(* (calc_mixed_traf_rel and calc_truck_rel both True) or of                *)
(* start_to_finish_custom_summaries_and_reliability (trucks only).         *)

\* Observations that fill the four mixed-traffic cohorts of (inrix, T1), the
\* five truck cohorts of (npmrds_from_inrix_trucks, T2), and single
\* observations of other groups.
RunGroups ==
    { { Obs("inrix", "T1", Stamp(2019, 1, 1, 6, 0), 10),
        Obs("inrix", "T1", Stamp(2019, 1, 1, 10, 0), 10),
        Obs("inrix", "T1", Stamp(2019, 1, 1, 16, 0), 10),
        Obs("inrix", "T1", Stamp(2019, 1, 5, 12, 0), 10) },
      { Obs("npmrds_from_inrix_trucks", "T2", Stamp(2019, 1, 1, 6, 0), 20),
        Obs("npmrds_from_inrix_trucks", "T2", Stamp(2019, 1, 1, 10, 0), 20),
        Obs("npmrds_from_inrix_trucks", "T2", Stamp(2019, 1, 1, 16, 0), 20),
        Obs("npmrds_from_inrix_trucks", "T2", Stamp(2019, 1, 1, 20, 0), 20),
        Obs("npmrds_from_inrix_trucks", "T2", Stamp(2019, 1, 5, 12, 0), 20) },
      { Obs("npmrds_from_inrix_trucks", "T2", Stamp(2019, 1, 1, 6, 0), 20) },
      { Obs("inrix", "T1", Stamp(2019, 1, 1, 6, 0), 10) },
      { Obs("inrix", "T2", Stamp(2019, 1, 1, 6, 0), 10) },
      { Obs("npmrds_from_inrix_pass_vehicles", "T3", Stamp(2020, 12, 31, 7, 0), 10) } }

\* What read_batch_of_raw_data can return as main_data; the empty set stands
\* for a folder without any RITIS export.
RunInputs == {UNION G : G \in SUBSET RunGroups}

\* The row of main_tmc_data for one (data_origin, tmc_code).
MetaRow(origin, code) ==
    LET k == Rank(TmcCodes, code)
    IN  [data_origin |-> origin, tmc_code |-> code,
         start_longitude |-> Val(10 * k + 1), start_latitude |-> Val(10 * k + 2),
         end_longitude |-> Val(10 * k + 3), end_latitude |-> Val(10 * k + 4)]

\* main_tmc_data of a read: the raw rows that were kept all have their
\* TMC code in the TMC table of their own data origin.
TmcTableOf(rows) == {MetaRow(r.data_origin, r.tmc_code) : r \in rows}

FileCrs == "epsg:4269"

SampleShapes ==
    { [tmc_code |-> "T1", geometry |-> Val([shape |-> "s1", crs |-> FileCrs])],
      [tmc_code |-> "T2", geometry |-> Val([shape |-> "s2", crs |-> FileCrs])],
      [tmc_code |-> "T3", geometry |-> NaN] }

\* Shapefiles with a CRS and any of the sample rows, and one without CRS.
ShapeFiles ==
    {[crs |-> Val(FileCrs), rows |-> R] : R \in SUBSET SampleShapes}
        \cup {[crs |-> NaN, rows |-> SampleShapes]}

ExportKinds == {"raw_speed_data", "tmc_data", "summary_data", "reliability_data"}

InitRun ==
    /\ pc = "call"
    /\ main_data = {}
    /\ summary_filter = [nm \in SummaryNames |-> {}]
    /\ all_summaries_concat = {}
    /\ calc_flags \in {<<TRUE, TRUE>>, <<FALSE, TRUE>>}
    /\ reliability_dfs = <<>>
    /\ raised = ""
    /\ ReadIdle
    /\ BatchIdle
    /\ ZipIdle
    /\ ArcIdle
    /\ main_tmc_data = {}
    /\ npmrds_geodata \in ShapeFiles
    /\ export_flags \in [ExportKinds -> BOOLEAN]
    /\ written = {}
    /\ all_summaries_with_geoms = {}
    /\ reliability_summaries_with_geoms = {}

MutExported(kinds) == written \cup kinds

\* if export_...: write the file.
Exported(kinds) == written \cup {k \in kinds : export_flags[k]}

\* STEP 1: read_batch_of_raw_data, then the two pickle exports.  pd.concat
\* of an empty list of parts raises ValueError.
DoReadBatchOfRawData ==
    /\ pc = "call"
    /\ \E rows \in RunInputs :
          IF rows = {}
          THEN /\ raised' = "ValueError"
               /\ pc' = "error"
               /\ UNCHANGED <<main_data, main_tmc_data>>
          ELSE /\ main_data' = rows
               /\ main_tmc_data' = TmcTableOf(rows)
               /\ pc' = "export_raw"
               /\ UNCHANGED raised
    /\ UNCHANGED <<summary_filter, all_summaries_concat, calc_flags, reliability_dfs,
                   readVars, batchVars, zipVars, arcVars, npmrds_geodata, export_flags, written,
                   all_summaries_with_geoms, reliability_summaries_with_geoms>>

DoExportRawData ==
    /\ pc = "export_raw"
    /\ written' = Exported({"raw_speed_data", "tmc_data"})
    /\ pc' = "fix"
    /\ UNCHANGED <<pipeVars, readVars, batchVars, zipVars, arcVars, main_tmc_data, npmrds_geodata,
                   export_flags, all_summaries_with_geoms,
                   reliability_summaries_with_geoms>>

\* STEP 3: filter_group_summarize_fhwa.
DoSummarize ==
    /\ pc = "summarize"
    /\ summary_filter' = [nm \in SummaryNames |-> Filtered(main_data, nm)]
    /\ all_summaries_concat' = FilterGroupSummarizeFhwa(main_data)
    /\ pc' = "geoms"
    /\ UNCHANGED <<main_data, calc_flags, reliability_dfs, raised, readVars, batchVars, otherVars>>

DoAddGeometriesToSummaries ==
    /\ pc = "geoms"
    /\ LET res == AddGeometriesToSummaries(all_summaries_concat, main_tmc_data,
                                           npmrds_geodata)
       IN  /\ all_summaries_with_geoms' = res.table
           /\ raised' = res.error
           /\ pc' = IF res.error = "" THEN "export_summary" ELSE "error"
    /\ UNCHANGED <<main_data, summary_filter, all_summaries_concat, calc_flags,
                   reliability_dfs, readVars, batchVars, zipVars, arcVars, main_tmc_data, npmrds_geodata,
                   export_flags, written, reliability_summaries_with_geoms>>

DoExportSummaryData ==
    /\ pc = "export_summary"
    /\ written' = Exported({"summary_data"})
    /\ pc' = "score"
    /\ UNCHANGED <<pipeVars, readVars, batchVars, zipVars, arcVars, main_tmc_data, npmrds_geodata,
                   export_flags, all_summaries_with_geoms,
                   reliability_summaries_with_geoms>>

\* STEP 4: calculate_standard_reliabilities with the flags of the function.
DoScore ==
    /\ pc = "score"
    /\ LET res == CalculateStandardReliabilities(all_summaries_concat, main_data,
                                                 calc_flags[1], calc_flags[2])
       IN  /\ reliability_dfs' = res.dfs
           /\ raised' = res.error
           /\ pc' = IF res.error = "" THEN "score_geoms" ELSE "error"
    /\ UNCHANGED <<main_data, summary_filter, all_summaries_concat, calc_flags,
                   readVars, batchVars, otherVars>>

\* pd.concat(reliability_dfs).
reliability_summaries_all ==
    UNION {reliability_dfs[i] : i \in DOMAIN reliability_dfs}

DoAddGeometriesToReliability ==
    /\ pc = "score_geoms"
    /\ LET res == AddGeometriesToSummaries(reliability_summaries_all, main_tmc_data,
                                           npmrds_geodata)
       IN  /\ reliability_summaries_with_geoms' = res.table
           /\ raised' = res.error
           /\ pc' = IF res.error = "" THEN "export_reliability" ELSE "error"
    /\ UNCHANGED <<main_data, summary_filter, all_summaries_concat, calc_flags,
                   reliability_dfs, readVars, batchVars, zipVars, arcVars, main_tmc_data, npmrds_geodata,
                   export_flags, written, all_summaries_with_geoms>>

DoExportReliabilityData ==
    /\ pc = "export_reliability"
    /\ written' = Exported({"reliability_data"})
    /\ pc' = "returned"
    /\ UNCHANGED <<pipeVars, readVars, batchVars, zipVars, arcVars, main_tmc_data, npmrds_geodata,
                   export_flags, all_summaries_with_geoms,
                   reliability_summaries_with_geoms>>

NextRun ==
    \/ DoReadBatchOfRawData
    \/ DoExportRawData
    \/ DoFixDatetimeColumns
    \/ DoDefineStandardFhwaTimeslots
    \/ DoSummarize
    \/ DoAddGeometriesToSummaries
    \/ DoExportSummaryData
    \/ DoScore
    \/ DoAddGeometriesToReliability
    \/ DoExportReliabilityData

SpecRun == InitRun /\ [][NextRun]_vars

---------------------------------------------------------------------------
(* query_arcgis_feature_server of apps/utils/reading_arcgis_service_layers *)
(* .py.  The server holds a fixed set of features; it answers a feature    *)
(* query with an error when the queried ID range holds more features than  *)
(* it can serve in time (limit), and it may time out on any query while    *)
(* its count of transient failures is not used up.                         *)

\* layer_def['fields'] and layer_def['objectIdField'].
LayerFields ==
    << [name |-> "OBJECTID", alias |-> "Object ID"],
       [name |-> "NAME", alias |-> "County"],
       [name |-> "POP", alias |-> "Population"] >>

fid_colname == "OBJECTID"

RECURSIVE SortIds(_)
\* np.sort of a collection of object IDs.
SortIds(S) ==
    IF S = {} THEN <<>>
    ELSE LET lo == CHOOSE x \in S : \A y \in S : x <= y
         IN  <<lo>> \o SortIds(S \ {lo})

Min(a, b) == IF a <= b THEN a ELSE b

MutFirstBlockSize(record_count_max, n) == n

\* block_size = min(record_count_max, len(all_objectids))
FirstBlockSize(record_count_max, n) == Min(record_count_max, n)

\* block_size = int(block_size/2)+1
Halve(b) == (b \div 2) + 1

MutSubList(ids, i, size) == SubSeq(ids, i + 1, Min(i + size + 1, Len(ids)))

\* all_objectids[i:i + block_size]
SubList(ids, i, size) == SubSeq(ids, i + 1, Min(i + size, Len(ids)))

\* The fields asked for by outFields=col_str.
OutFields(cols) ==
    IF cols = NaN THEN {LayerFields[i].name : i \in DOMAIN LayerFields}
    ELSE {fid_colname} \cup {cols[1][i] : i \in DOMAIN cols[1]}

\* The features of the server in the ID range of a query, as the server
\* returns them: never more than maxRecordCount.
Answer(server, id_start, id_end) ==
    LET hit == SortIds({x \in server.features : id_start <= x /\ x <= id_end})
    IN  SubSeq(hit, 1, Min(Len(hit), server.maxRecordCount))

\* The query is too big for the server to answer in time.
TimesOut(server, id_start, id_end) ==
    Cardinality({x \in server.features : id_start <= x /\ x <= id_end}) > server.limit

\* The server after an error answer: a failure of a query it could have
\* answered uses up one transient failure.
AfterError(server, id_start, id_end) ==
    IF TimesOut(server, id_start, id_end) THEN server
    ELSE [server EXCEPT !.transient = @ - 1]

Query(id_start, id_end, error) == [id_start |-> id_start, id_end |-> id_end, error |-> error]

Part(id_start, id_end, ids) == [id_start |-> id_start, id_end |-> id_end, ids |-> ids]

RECURSIVE ConcatIds(_)
ConcatIds(parts) ==
    IF parts = <<>> THEN <<>> ELSE Head(parts).ids \o ConcatIds(Tail(parts))

\* sort_values(by=fid_colname) on the concatenated pages: repeated IDs stay.
SortValues(ids) ==
    [i \in DOMAIN ids |->
        CHOOSE v \in {ids[j] : j \in DOMAIN ids} :
            /\ Cardinality({j \in DOMAIN ids : ids[j] < v}) < i
            /\ i <= Cardinality({j \in DOMAIN ids : ids[j] <= v})]

\* Lines 188-195: the columns the function selects at the end, and the
\* columns the concatenated pages have at that point.
NewColumnOrder(rename) ==
    [i \in DOMAIN LayerFields |->
        IF rename THEN LayerFields[i].alias ELSE LayerFields[i].name]

ColumnsReceived(cols, rename) ==
    {IF rename THEN LayerFields[i].alias ELSE LayerFields[i].name :
        i \in {i \in DOMAIN LayerFields : LayerFields[i].name \in OutFields(cols)}}
        \cup {"geometry"}

SampleObjectIds == {1, 2, 4, 5, 7}

MaxRecordCount == 4

MaxLimit == 3

MaxTransient == 1

SampleCols ==
    {NaN, Val(<<"NAME">>), Val(<<"OBJECTID", "NAME">>), Val(<<"POP", "NAME", "OBJECTID">>)}

InitArc ==
    /\ pc = "layer"
    /\ feature_server \in [features : SUBSET SampleObjectIds,
                           maxRecordCount : 1 .. MaxRecordCount,
                           limit : 1 .. MaxLimit,
                           transient : 0 .. MaxTransient]
    /\ query_args \in [cols : SampleCols, rename_columns_with_alias : BOOLEAN]
    /\ all_objectids = <<>>
    /\ block_size = 0
    /\ page_start = 0
    /\ url_get = <<>>
    /\ request_failed = FALSE
    /\ geodata_parts = <<>>
    /\ geodata_final = <<>>
    /\ main_data = {}
    /\ PipeIdle
    /\ ReadIdle
    /\ BatchIdle
    /\ ZipIdle
    /\ RunIdle

\* Lines 55-109: the layer definition, the IDs-only query, the early return
\* for a layer without features, and the first page size.
DoGetObjectIds ==
    /\ pc = "layer"
    /\ all_objectids' = SortIds(feature_server.features)
    /\ IF feature_server.features = {}
       THEN /\ geodata_final' = [columns |-> <<>>, ids |-> <<>>]
            /\ pc' = "arc_done"
            /\ UNCHANGED block_size
       ELSE /\ block_size' = FirstBlockSize(feature_server.maxRecordCount,
                                            Cardinality(feature_server.features))
            /\ pc' = "probe"
            /\ UNCHANGED geodata_final
    /\ UNCHANGED <<feature_server, query_args, page_start, url_get, request_failed,
                   geodata_parts, pipeVars, readVars, batchVars, zipVars, runVars>>

\* One iteration of the loop "while not worked" (lines 111-131).
DoProbe ==
    /\ pc = "probe"
    /\ LET id_start == all_objectids[1]
           id_end   == all_objectids[block_size]
       IN  \/ /\ TimesOut(feature_server, id_start, id_end) \/ feature_server.transient > 0
              /\ feature_server' = AfterError(feature_server, id_start, id_end)
              /\ url_get' = Query(id_start, id_end, TRUE)
              /\ request_failed' = TRUE
              /\ block_size' = Halve(block_size)
              /\ UNCHANGED <<pc, page_start, geodata_parts>>
           \/ /\ ~TimesOut(feature_server, id_start, id_end)
              /\ url_get' = Query(id_start, id_end, FALSE)
              /\ geodata_parts' =
                     Append(geodata_parts,
                            Part(id_start, id_end, Answer(feature_server, id_start, id_end)))
              /\ page_start' = block_size
              /\ pc' = "pages"
              /\ UNCHANGED <<feature_server, request_failed, block_size>>
    /\ UNCHANGED <<query_args, all_objectids, geodata_final, pipeVars, readVars, batchVars,
                   zipVars, runVars>>

\* One iteration of the loop over the later pages (lines 136-159).  The
\* answer is handed to gpd.read_file unchecked: an error answer is no
\* GeoJSON and read_file raises.
DoPage ==
    /\ pc = "pages"
    /\ page_start < Len(all_objectids)
    /\ LET sub_list == SubList(all_objectids, page_start, block_size)
           id_start == sub_list[1]
           id_end   == sub_list[Len(sub_list)]
           part     == Answer(feature_server, id_start, id_end)
       IN  \/ /\ TimesOut(feature_server, id_start, id_end) \/ feature_server.transient > 0
              /\ feature_server' = AfterError(feature_server, id_start, id_end)
              /\ url_get' = Query(id_start, id_end, TRUE)
              /\ request_failed' = TRUE
              /\ raised' = "DriverError"
              /\ pc' = "error"
              /\ UNCHANGED <<page_start, geodata_parts>>
           \/ /\ ~TimesOut(feature_server, id_start, id_end)
              /\ url_get' = Query(id_start, id_end, FALSE)
              /\ geodata_parts' = IF Len(part) > 0
                                  THEN Append(geodata_parts, Part(id_start, id_end, part))
                                  ELSE geodata_parts
              /\ page_start' = page_start + block_size
              /\ UNCHANGED <<pc, raised, feature_server, request_failed>>
    /\ UNCHANGED <<query_args, all_objectids, block_size, geodata_final, main_data,
                   summary_filter, all_summaries_concat, calc_flags, reliability_dfs,
                   readVars, batchVars, zipVars, runVars>>

\* Lines 161-197: concatenation, the two checks that only print, and the
\* selection of the columns; a column that is not there raises KeyError.
DoReturnGeodata ==
    /\ pc = "pages"
    /\ page_start >= Len(all_objectids)
    /\ LET order == NewColumnOrder(query_args.rename_columns_with_alias)
           have  == ColumnsReceived(query_args.cols, query_args.rename_columns_with_alias)
       IN  IF \A i \in DOMAIN order : order[i] \in have
           THEN /\ geodata_final' = [columns |-> Append(order, "geometry"),
                                     ids |-> SortValues(ConcatIds(geodata_parts))]
                /\ pc' = "arc_done"
                /\ UNCHANGED raised
           ELSE /\ raised' = "KeyError"
                /\ pc' = "error"
                /\ UNCHANGED geodata_final
    /\ UNCHANGED <<feature_server, query_args, all_objectids, block_size, page_start,
                   url_get, request_failed, geodata_parts, main_data, summary_filter,
                   all_summaries_concat, calc_flags, reliability_dfs, readVars, batchVars,
                   zipVars, runVars>>

NextArc ==
    \/ DoGetObjectIds
    \/ DoProbe
    \/ DoPage
    \/ DoReturnGeodata

SpecArc == InitArc /\ [][NextArc]_vars

\* The download keeps running: a step is taken whenever one is possible.
SpecArcLive == SpecArc /\ WF_vars(NextArc)

---------------------------------------------------------------------------
(* query_arcgis_feature_server_listing and make_list_query.  The URL of    *)
(* the layer is known by its length and by whether it ends in a slash; a   *)
(* query URL is known by its length.                                       *)

request_length_max == 2000

RECURSIVE Digits(_)
\* len(str(n)) for an object ID n >= 0.
Digits(n) == IF n < 10 THEN 1 ELSE 1 + Digits(n \div 10)

RECURSIVE SumDigits(_)
SumDigits(ids) == IF ids = <<>> THEN 0 ELSE Digits(Head(ids)) + SumDigits(Tail(ids))

\* url_feature_server after lines 214-215.
WithSlash(url) ==
    IF url.slash THEN url ELSE [len |-> url.len + 1, slash |-> TRUE]

\* len(make_list_query(...)): the URL, 'query?f=geojson&outFields=*&where='
\* (34 characters) and the quoted '<fid> in (id,id,...)', where the blanks,
\* the brackets and the commas take three characters each.
MakeListQuery(objectid_list, url_len) ==
    url_len + 34 + 8 + (3 + 2 + 3) + 3 + SumDigits(objectid_list)
        + (IF objectid_list = <<>> THEN 0 ELSE 3 * (Len(objectid_list) - 1)) + 3

\* all_objectids[lo:hi]
Slice(ids, lo, hi) == SubSeq(ids, lo + 1, Min(hi, Len(ids)))

MutPerformQuery(ids, lo, hi, url_len, record_count_max) ==
    \/ MakeListQuery(Slice(ids, lo, hi + 1), url_len) > request_length_max
    \/ hi + 1 - lo >= record_count_max

\* The condition of line 266: the query is performed, not grown.
PerformQuery(ids, lo, hi, url_len, record_count_max) ==
    \/ MakeListQuery(Slice(ids, lo, hi + 1), url_len) > request_length_max
    \/ hi + 1 - lo >= record_count_max
    \/ hi = Len(ids)

\* The features the server returns for '<fid> in (...)'.
AnswerList(server, objectid_list) ==
    LET hit == SelectSeq(objectid_list, LAMBDA x : x \in server.features)
    IN  SubSeq(hit, 1, Min(Len(hit), server.maxRecordCount))

ListPart(objectid_list, ids) == [objectid_list |-> objectid_list, ids |-> ids]

\* URLs short enough for any query, and URLs so long that the second or the
\* third object ID, or already the first, passes request_length_max.
SampleUrls ==
    [len : {40, request_length_max - 65, request_length_max - 61,
            request_length_max - 57}, slash : BOOLEAN]

InitList ==
    /\ pc = "list_layer"
    /\ feature_server \in [features : SUBSET SampleObjectIds,
                           maxRecordCount : 1 .. MaxRecordCount,
                           transient : 0 .. MaxTransient]
    /\ query_args \in [url_feature_server : SampleUrls]
    /\ all_objectids = <<>>
    /\ query_start = 0
    /\ query_end = 0
    /\ ids_queried = {}
    /\ block_size = 0
    /\ page_start = 0
    /\ url_get = <<>>
    /\ request_failed = FALSE
    /\ geodata_parts = <<>>
    /\ geodata_final = <<>>
    /\ main_data = {}
    /\ zip_contents = <<>>
    /\ origins_todo = <<>>
    /\ main_data_parts = <<>>
    /\ self = <<>>
    /\ filter_returned = <<>>
    /\ PipeIdle
    /\ ReadIdle
    /\ ZipIdle
    /\ RunIdle

\* Lines 214-251: the slash, the layer definition, the IDs-only query and
\* the start values of the cursors.
DoListObjectIds ==
    /\ pc = "list_layer"
    /\ query_args' = [url_feature_server |-> WithSlash(query_args.url_feature_server)]
    /\ all_objectids' = SortIds(feature_server.features)
    /\ geodata_parts' = <<>>
    /\ query_start' = 0
    /\ query_end' = 1
    /\ ids_queried' = {}
    /\ pc' = "list_loop"
    /\ UNCHANGED <<feature_server, block_size, page_start, url_get, request_failed,
                   geodata_final, pipeVars, readVars, zip_contents, origins_todo,
                   main_data_parts, filterVars, zipVars, runVars>>

\* One iteration of the loop of line 252: the query is performed, and the
\* server answers it or fails, or the query grows by one object ID.
DoListQuery ==
    /\ pc = "list_loop"
    /\ query_end < Len(all_objectids) + 1
    /\ LET objectid_list == Slice(all_objectids, query_start, query_end)
       IN  IF PerformQuery(all_objectids, query_start, query_end,
                           query_args.url_feature_server.len, feature_server.maxRecordCount)
           THEN \/ /\ feature_server.transient > 0
                   /\ feature_server' = [feature_server EXCEPT !.transient = @ - 1]
                   /\ url_get' = [objectid_list |-> objectid_list, error |-> TRUE]
                   /\ request_failed' = TRUE
                   /\ raised' = "DriverError"
                   /\ pc' = "error"
                   /\ UNCHANGED <<geodata_parts, listVars>>
                \/ /\ url_get' = [objectid_list |-> objectid_list, error |-> FALSE]
                   /\ geodata_parts' =
                          Append(geodata_parts,
                                 ListPart(objectid_list, AnswerList(feature_server, objectid_list)))
                   /\ ids_queried' = ids_queried \cup
                          {objectid_list[i] : i \in DOMAIN objectid_list}
                   /\ query_start' = query_end
                   /\ query_end' = query_end + 1
                   /\ UNCHANGED <<pc, raised, feature_server, request_failed>>
           ELSE /\ query_end' = query_end + 1
                /\ UNCHANGED <<pc, raised, feature_server, request_failed, url_get,
                               geodata_parts, query_start, ids_queried>>
    /\ UNCHANGED <<query_args, all_objectids, block_size, page_start, geodata_final,
                   main_data, summary_filter, all_summaries_concat, calc_flags,
                   reliability_dfs, readVars, zip_contents, origins_todo, main_data_parts,
                   filterVars, zipVars, runVars>>

\* Lines 288-300: the check that only prints, the concatenation and the
\* sort; pd.concat of an empty list of parts raises ValueError.
DoListReturn ==
    /\ pc = "list_loop"
    /\ ~(query_end < Len(all_objectids) + 1)
    /\ IF geodata_parts = <<>>
       THEN /\ raised' = "ValueError"
            /\ pc' = "error"
            /\ UNCHANGED geodata_final
       ELSE /\ geodata_final' =
                   [columns |-> [i \in DOMAIN LayerFields |-> LayerFields[i].name],
                    ids |-> SortValues(ConcatIds(geodata_parts))]
            /\ pc' = "list_done"
            /\ UNCHANGED raised
    /\ UNCHANGED <<feature_server, query_args, all_objectids, block_size, page_start,
                   url_get, request_failed, geodata_parts, main_data, summary_filter,
                   all_summaries_concat, calc_flags, reliability_dfs, readVars, batchVars,
                   zipVars, runVars>>

NextList ==
    \/ DoListObjectIds
    \/ DoListQuery
    \/ DoListReturn

SpecList == InitList /\ [][NextList]_vars

\* The function keeps running: a step is taken whenever one is possible.
SpecListLive == SpecList /\ WF_vars(NextList)

---------------------------------------------------------------------------
(* Properties of calculate_standard_reliabilities.                         *)

Returned == pc = "done"

\* The tables of the enabled reliability types in the returned list: the
\* mixed-traffic table comes first when enabled, the truck table last.
TypeTables ==
    (IF calc_flags[1] THEN {reliability_dfs[1]} ELSE {}) \cup
    (IF calc_flags[2] THEN {reliability_dfs[Len(reliability_dfs)]} ELSE {})

ScoredRows(table) == {r \in table : NotNull(r.Reliability_Type)}

ReAddedRows(table) == {r \in table : r.Reliability_Type = NaN}

\* C1: whenever calculate_standard_reliabilities returns, every tmc_code of
\* main_data occurs in a row of the table of every enabled reliability type.
C1_EveryTmcCodeInOutput ==
    Returned =>
        \A table \in TypeTables :
            \A o \in main_data : \E r \in table : r.tmc_code = o.tmc_code

\* A run that returned a table holding a scored row and a re-added row.
C1_Witness ==
    /\ Returned
    /\ \E table \in TypeTables :
          /\ ScoredRows(table) # {}
          /\ ReAddedRows(table) # {}
          /\ \E o \in main_data : \E r \in ReAddedRows(table) : r.tmc_code = o.tmc_code

\* C2: calculate_standard_reliabilities returns normally, with every segment
\* of main_data in the table, also when an enabled reliability type scores
\* no segment at all.
C2_ReturnsWhenNothingScored ==
    LET mixedEmpty == calc_flags[1] /\
                      CalculateStandardReliabilyMixedTraffic(all_summaries_concat) = {}
        truckEmpty == calc_flags[2] /\
                      CalculateStandardReliabilityTrucks(all_summaries_concat) = {}
    IN  (pc \in {"done", "error"} /\ (mixedEmpty \/ truckEmpty)) =>
            /\ pc = "done"
            /\ raised = ""
            /\ \A table \in TypeTables :
                   \A o \in main_data : \E r \in table : r.tmc_code = o.tmc_code

\* C3: for each enabled type, the re-added TMC codes are exactly the codes of
\* main_data that no scored row of the type carries, each re-added once, every
\* re-added row has null RawDataRows, SummaryCount, Reliability and Reliable,
\* and the scored rows are the scored table, unchanged.
C3_ReAddedExactlyTheMissing ==
    Returned =>
        \A table \in TypeTables :
            LET scoredCodes == {r.tmc_code : r \in ScoredRows(table)}
                reAddedCodes == {r.tmc_code : r \in ReAddedRows(table)}
            IN  /\ reAddedCodes = {o.tmc_code : o \in main_data} \ scoredCodes
                /\ Cardinality(ReAddedRows(table)) = Cardinality(reAddedCodes)
                /\ \A r \in ReAddedRows(table) :
                       /\ r.RawDataRows = NaN
                       /\ r.SummaryCount = NaN
                       /\ r.Reliability = NaN
                       /\ r.Reliable = NaN
                /\ \A r \in ScoredRows(table) :
                       /\ NotNull(r.RawDataRows) /\ NotNull(r.SummaryCount)
                       /\ NotNull(r.Reliability) /\ NotNull(r.Reliable)
                       /\ Cardinality({q \in table : q.tmc_code = r.tmc_code
                                                     /\ q.data_origin = r.data_origin}) = 1

\* Both types enabled and returned, with a re-added row in each table.
C3_Witness ==
    /\ Returned
    /\ calc_flags = <<TRUE, TRUE>>
    /\ \A table \in TypeTables : ReAddedRows(table) # {} /\ ScoredRows(table) # {}

---------------------------------------------------------------------------
(* Properties of the scores.                                               *)

MixedTable == IF calc_flags[1] THEN reliability_dfs[1] ELSE {}

TruckTable == IF calc_flags[2] THEN reliability_dfs[Len(reliability_dfs)] ELSE {}

\* The summary rows of one (tmc_code, data_origin) in the named cohorts.
SummariesOf(r, names) ==
    {s \in all_summaries_concat : /\ s.tmc_code = r.tmc_code
                                  /\ s.data_origin = r.data_origin
                                  /\ s.summary_type \in names}

\* The observations of one (tmc_code, data_origin) in the named cohorts.
CohortRows(r, names) ==
    {o \in UNION {summary_filter[nm] : nm \in names} :
        o.tmc_code = r.tmc_code /\ o.data_origin = r.data_origin}

\* The ratio cell equals the largest of hi/ttime_50p over the summary rows S,
\* hi being the numerator percentile of each row.
IsMaxOf(cell, S, hi) ==
    /\ NotNull(cell)
    /\ \A s \in S : hi[s] * cell[1][2] <= cell[1][1] * s.ttime_50p
    /\ \E s \in S : hi[s] * cell[1][2] = cell[1][1] * s.ttime_50p

\* C4, as claimed: the Reliability of a Mixed_Traffic row is the maximum of
\* ttime_80p / ttime_50p over four cohorts of the segment, each of them
\* holding weekday observations only.
C4_FourWeekdayCohorts ==
    Returned =>
        \A r \in ScoredRows(MixedTable) :
            \E names \in SUBSET SummaryNames :
                /\ Cardinality(names) = 4
                /\ Cardinality(SummariesOf(r, names)) = 4
                /\ \A o \in CohortRows(r, names) : o.day_of_week \in 0 .. 4
                /\ IsMaxOf(r.Reliability, SummariesOf(r, names),
                           [s \in SummariesOf(r, names) |-> s.ttime_80p])

\* C4, amended: the Reliability of a Mixed_Traffic row is the maximum of
\* ttime_80p / ttime_50p over the four cohorts am_peak, midday, pm_peak and
\* weekends of the segment; the first three hold weekday observations only,
\* the weekends cohort Saturday and Sunday observations only.
C4_ThreeWeekdayCohortsAndWeekends ==
    Returned =>
        \A r \in ScoredRows(MixedTable) :
            LET S == SummariesOf(r, {"am_peak", "midday", "pm_peak", "weekends"})
            IN  /\ Cardinality(S) = 4
                /\ IsMaxOf(r.Reliability, S, [s \in S |-> s.ttime_80p])
                /\ \A o \in CohortRows(r, {"am_peak", "midday", "pm_peak"}) :
                       o.day_of_week \in 0 .. 4
                /\ \A o \in CohortRows(r, {"weekends"}) : o.day_of_week \in {5, 6}

\* A scored mixed-traffic segment whose largest ratio comes from the weekends
\* cohort alone.
C4_Witness ==
    /\ Returned
    /\ \E r \in ScoredRows(MixedTable) :
          /\ IsMaxOf(r.Reliability, SummariesOf(r, {"weekends"}),
                     [s \in SummariesOf(r, {"weekends"}) |-> s.ttime_80p])
          /\ ~ IsMaxOf(r.Reliability, SummariesOf(r, {"am_peak", "midday", "pm_peak"}),
                       [s \in SummariesOf(r, {"am_peak", "midday", "pm_peak"}) |->
                            s.ttime_80p])

\* C5: a scored segment is flagged not reliable exactly when its Reliability
\* is larger than 1.5, so a Reliability of exactly 1.5 is flagged reliable.
C5_ReliableUnlessAboveThreshold ==
    Returned =>
        \A table \in TypeTables :
            \A r \in ScoredRows(table) :
                r.Reliable = Val(~ (2 * r.Reliability[1][1] > 3 * r.Reliability[1][2]))

\* C6: the Reliability of a Truck_Traffic row is the maximum of
\* ttime_95p / ttime_50p over the five cohorts am_peak, midday, pm_peak,
\* overnight and weekends of that TMC code under npmrds_from_inrix_trucks, and
\* no row of another data origin is scored as truck traffic.
C6_TruckMaxOverFiveCohorts ==
    Returned =>
        \A r \in ScoredRows(TruckTable) :
            LET S == {s \in all_summaries_concat :
                        /\ s.tmc_code = r.tmc_code
                        /\ s.data_origin = "npmrds_from_inrix_trucks"
                        /\ s.summary_type \in
                               {"am_peak", "midday", "pm_peak", "overnight", "weekends"}}
            IN  /\ r.data_origin = "npmrds_from_inrix_trucks"
                /\ r.Reliability_Type = Val("Truck_Traffic")
                /\ Cardinality(S) = 5
                /\ IsMaxOf(r.Reliability, S, [s \in S |-> s.ttime_95p])

\* A scored truck segment whose 95th and 80th percentile ratios differ, in a
\* run whose data also holds a mixed-traffic segment with all five cohorts.
C6_Witness ==
    /\ Returned
    /\ \E r \in ScoredRows(TruckTable) :
          /\ r.Reliability # Val(<<1, 1>>)
          /\ \E s \in all_summaries_concat :
                s.data_origin = "inrix" /\ s.summary_type = "overnight"

---------------------------------------------------------------------------
(* Properties of the time bucketing.                                       *)

Labelled == pc = "summarize"

MinuteOf(o) == o.measurement_tstamp.minute

InAmPeak(o) == 6 * 60 <= MinuteOf(o) /\ MinuteOf(o) < 10 * 60

InMidday(o) == 10 * 60 <= MinuteOf(o) /\ MinuteOf(o) < 16 * 60

InPmPeak(o) == 16 * 60 <= MinuteOf(o) /\ MinuteOf(o) < 20 * 60

InOvernight(o) == MinuteOf(o) < 6 * 60 \/ MinuteOf(o) >= 20 * 60

\* C7: define_standard_fhwa_timeslots labels every observation with exactly
\* one time slot: am_peak on [06:00, 10:00), midday on [10:00, 16:00), pm_peak
\* on [16:00, 20:00), overnight before 06:00 and from 20:00 on; the filters of
\* no two slots hold for the same time of day.
C7_OneSlotPerObservation ==
    Labelled =>
        \A o \in main_data :
            /\ InAmPeak(o) => o.time_slot = Val("am_peak")
            /\ InMidday(o) => o.time_slot = Val("midday")
            /\ InPmPeak(o) => o.time_slot = Val("pm_peak")
            /\ InOvernight(o) => o.time_slot = Val("overnight")
            /\ NotNull(o.time_slot)
            /\ Cardinality({i \in DOMAIN all_time_slots :
                               GetFilter(all_time_slots[i], o.time)}) = 1

\* An observation at exactly 20:00, labelled overnight.
C7_Witness ==
    /\ Labelled
    /\ \E o \in main_data : MinuteOf(o) = 20 * 60 /\ o.time_slot = Val("overnight")

\* C8: define_standard_fhwa_timeslots labels every observation, whatever its
\* calendar date, with date_window 'all_days'.
C8_EveryDateInAllDays ==
    Labelled => \A o \in main_data : o.date_window = Val("all_days")

---------------------------------------------------------------------------
(* Properties of filter_group_summarize_fhwa.                              *)

Summarized == pc \in {"reliability", "done", "error"}

\* Every summary row counts the observations of its (data_origin, tmc_code)
\* in its cohort, and every such non-empty group has its summary row.
SummariesFollowCohorts ==
    /\ \A s \in all_summaries_concat :
          /\ s.summary_type \in SummaryNames
          /\ s.count_obs = Cardinality(CohortRows(s, {s.summary_type}))
          /\ s.count_obs > 0
    /\ \A nm \in SummaryNames :
          \A o \in summary_filter[nm] : SummariesOf(o, {nm}) # {}

\* C9, as claimed: am_peak, midday, pm_peak and overnight each hold only
\* weekday observations of their time slot, weekends only Saturday/Sunday
\* observations between 06:00 and 20:00, alltime every observation.
C9_FourWeekdayCohorts ==
    Summarized =>
        /\ SummariesFollowCohorts
        /\ \A o \in summary_filter["am_peak"] : InAmPeak(o) /\ o.day_of_week \in 0 .. 4
        /\ \A o \in summary_filter["midday"] : InMidday(o) /\ o.day_of_week \in 0 .. 4
        /\ \A o \in summary_filter["pm_peak"] : InPmPeak(o) /\ o.day_of_week \in 0 .. 4
        /\ \A o \in summary_filter["overnight"] :
               InOvernight(o) /\ o.day_of_week \in 0 .. 4
        /\ \A o \in summary_filter["weekends"] :
               ~ InOvernight(o) /\ o.day_of_week \in {5, 6}
        /\ summary_filter["alltime"] = main_data

\* C9, amended: am_peak, midday and pm_peak each hold only weekday
\* observations of their time slot, overnight only observations of the
\* overnight time slot on any day of the week, weekends only Saturday/Sunday
\* observations between 06:00 and 20:00, alltime every observation.
C9_ThreeWeekdayCohorts ==
    Summarized =>
        /\ SummariesFollowCohorts
        /\ \A o \in summary_filter["am_peak"] : InAmPeak(o) /\ o.day_of_week \in 0 .. 4
        /\ \A o \in summary_filter["midday"] : InMidday(o) /\ o.day_of_week \in 0 .. 4
        /\ \A o \in summary_filter["pm_peak"] : InPmPeak(o) /\ o.day_of_week \in 0 .. 4
        /\ \A o \in summary_filter["overnight"] :
               InOvernight(o) /\ o.day_of_week \in 0 .. 6
        /\ \A o \in summary_filter["weekends"] :
               ~ InOvernight(o) /\ o.day_of_week \in {5, 6}
        /\ summary_filter["alltime"] = main_data

\* Summaries of data with a Saturday observation before 06:00 in the
\* overnight cohort and a Saturday observation in the weekends cohort.
C9_Witness ==
    /\ Summarized
    /\ \E o \in summary_filter["overnight"] : o.day_of_week = 5
    /\ \E o \in summary_filter["weekends"] : o.day_of_week = 5
    /\ \E o \in summary_filter["am_peak"] : TRUE

---------------------------------------------------------------------------
(* Properties of read_csv_get_specific_road_segments.                      *)

RECURSIVE Flatten(_)
Flatten(chunks) == IF chunks = <<>> THEN <<>> ELSE Head(chunks) \o Flatten(Tail(chunks))

KeptRows == Flatten(raw_data_chunks)

\* The TMC codes with a metadata row in the zip whose road name (empty when
\* missing) contains the searched road.
RoadCodes ==
    {t.tmc : t \in {t \in zip_tmc_file :
                       Contains(IF t.road = NaN THEN <<>> ELSE t.road[1], road_str)}}

\* C10: of the raw rows read so far, exactly those whose tmc_code is in the
\* road-filtered, de-duplicated TMC table are kept, each once and in file
\* order, whatever the chunk.
C10_KeepsExactlyTheRoadRows ==
    pc # "open" =>
        /\ TmcCodesOf(tmc_data) = RoadCodes
        /\ {KeptRows[i].line : i \in DOMAIN KeptRows} =
               {n \in 1 .. reader_pos : zip_raw_file[n].tmc_code \in TmcCodesOf(tmc_data)}
        /\ \A i \in DOMAIN KeptRows :
               /\ KeptRows[i].tmc_code = zip_raw_file[KeptRows[i].line].tmc_code
               /\ \A j \in DOMAIN KeptRows : i < j => KeptRows[i].line < KeptRows[j].line

\* A whole file read in two chunks or more, with a row kept and a row dropped
\* for a road that was searched by name.
C10_Witness ==
    /\ pc = "read_done"
    /\ Len(raw_data_chunks) >= 2
    /\ road_str # <<>>
    /\ KeptRows # <<>>
    /\ Len(KeptRows) < Len(zip_raw_file)

\* The metadata rows of one TMC code that the road query lets through.
MatchingRows(c) ==
    {t \in RoadQuery({FillRoad([q EXCEPT !.data_origin = ReadOrigin]) : q \in zip_tmc_file},
                     road_str) : t.tmc_code = c}

\* C11: the de-duplicated TMC table has one row per tmc_code, and that row
\* is, field for field, the road-matching input row of the code with the
\* latest active_end_date.
C11_LatestRowWinsWhole ==
    pc # "open" =>
        \A c \in TmcCodesOf(tmc_data) :
            /\ Cardinality({d \in tmc_data : d.tmc_code = c}) = 1
            /\ \A d \in tmc_data : d.tmc_code = c =>
                   \E t \in MatchingRows(c) :
                       /\ \A q \in MatchingRows(c) : q.active_end_date <= t.active_end_date
                       /\ d = t

---------------------------------------------------------------------------
(* Properties of which_zip_is_which_data_source.                           *)

Members(f) == {f.namelist[i] : i \in DOMAIN f.namelist}

FolderFiles == {input_data_folder[i] : i \in DOMAIN input_data_folder}

EntryOrigins == {o \in DOMAIN data_paths_dict : NotNull(data_paths_dict[o])}

\* C12: every entry of data_paths_dict names a zip file of the folder that
\* holds a Contents.txt whose first line carries the description of the
\* entry's data origin, and its raw_data_file is a member of that zip other
\* than Contents.txt and TMC_Identification.csv.
C12_EntriesNameMatchingZips ==
    \A o \in EntryOrigins :
        LET entry == data_paths_dict[o][1]
        IN  \E f \in FolderFiles :
                /\ f.is_file
                /\ f.name = entry.zip_file
                /\ "Contents.txt" \in Members(f)
                /\ f.contents # <<>>
                /\ Contains(f.contents[1], dict_for_origin_match[o])
                /\ entry.raw_data_file \in Members(f) \ {"Contents.txt", "TMC_Identification.csv"}

\* A returned mapping with two data origins or more, from a folder that also
\* held a zip file that is in no entry.
C12_Witness ==
    /\ pc = "zip_done"
    /\ Cardinality(EntryOrigins) >= 2
    /\ \E f \in FolderFiles :
           /\ IsFolderZip(f)
           /\ \A o \in EntryOrigins : data_paths_dict[o][1].zip_file # f.name

---------------------------------------------------------------------------
(* Properties of add_geometries_to_summaries.                              *)

\* The shapes the shapefile holds for the TMC code of row r.
ShapesHeld(r) ==
    {g.geometry[1].shape : g \in {g \in npmrds_geodata.rows :
                                     g.tmc_code = r.tmc_code /\ NotNull(g.geometry)}}

\* Row r carries the geometry the two sources determine for it.
GeometryResolved(r) ==
    IF ShapesHeld(r) # {}
    THEN /\ r.geom_final_type = "original_tmc_shape"
         /\ \E sh \in ShapesHeld(r) : r.geom_final = Val([shape |-> sh, crs |-> "epsg:4326"])
    ELSE /\ r.geom_final_type = "simplified_tmc_shape"
         /\ \E m \in main_tmc_data :
               /\ m.data_origin = r.data_origin
               /\ m.tmc_code = r.tmc_code
               /\ NotNull(m.start_longitude) /\ NotNull(m.start_latitude)
               /\ NotNull(m.end_longitude) /\ NotNull(m.end_latitude)
               /\ r.geom_final = Val([start |-> <<m.start_longitude, m.start_latitude>>,
                                      end |-> <<m.end_longitude, m.end_latitude>>,
                                      crs |-> "epsg:4326"])

\* C13: every row returned by add_geometries_to_summaries, for the summaries
\* and for the reliability table, has the shapefile's geometry of its
\* tmc_code tagged 'original_tmc_shape' when the shapefile holds one, and
\* otherwise the straight line between the start and end points recorded in
\* the TMC metadata of its (data_origin, tmc_code), tagged
\* 'simplified_tmc_shape'.
C13_GeometryFromShapefileOrMetadata ==
    \A r \in all_summaries_with_geoms \cup reliability_summaries_with_geoms :
        GeometryResolved(r)

\* The same for the summaries alone.
SummaryGeometriesResolved == \A r \in all_summaries_with_geoms : GeometryResolved(r)

---------------------------------------------------------------------------
(* Properties of query_arcgis_feature_server.                              *)

\* C14: the page-size probing loop terminates (the server of the model
\* answers every query for a single feature once its transient failures are
\* used up, so there always is a page size it accepts).
C14_ProbingTerminates == (pc = "probe") ~> (pc # "probe")

\* The loop over the later pages has run to its end.
Downloaded ==
    \/ pc = "pages" /\ page_start >= Len(all_objectids)
    \/ pc = "arc_done" /\ all_objectids # <<>>
    \/ pc = "error" /\ raised = "KeyError"

IdsIn(lo, hi) == {all_objectids[k] : k \in {k \in DOMAIN all_objectids :
                                               lo <= all_objectids[k] /\ all_objectids[k] <= hi}}

\* C15: when no page request fails, whatever page size the probing loop
\* settled on, the ID ranges of the pages received are pairwise disjoint,
\* together they cover every reported object ID, and every object ID has
\* been retrieved exactly once.
C15_EveryObjectIdOnce ==
    Downloaded =>
        /\ \A i, j \in DOMAIN geodata_parts :
               i < j => geodata_parts[i].id_end < geodata_parts[j].id_start
        /\ \A k \in DOMAIN all_objectids :
               \E i \in DOMAIN geodata_parts :
                   all_objectids[k] \in IdsIn(geodata_parts[i].id_start, geodata_parts[i].id_end)
        /\ SortValues(ConcatIds(geodata_parts)) = all_objectids
        /\ pc = "arc_done" => geodata_final.ids = all_objectids

\* A download of three pages, the last one shorter, with a page size that a
\* retry of the probing loop settled on.
C15_Witness ==
    /\ pc = "arc_done"
    /\ request_failed
    /\ Len(geodata_parts) = 3
    /\ Len(geodata_parts[3].ids) < block_size

\* C16: no feature query asks for an ID range that holds more than
\* maxRecordCount of the known object IDs.
C16_NoQueryAboveMaxRecordCount ==
    url_get # <<>> =>
        Cardinality(IdsIn(url_get.id_start, url_get.id_end)) <= feature_server.maxRecordCount

\* The last, shorter page of a download whose first attempt was answered with
\* an error and whose page size is below maxRecordCount since.
C16_Witness ==
    /\ Downloaded
    /\ request_failed
    /\ ~url_get.error
    /\ block_size < feature_server.maxRecordCount
    /\ Len(geodata_parts) >= 2
    /\ Cardinality(IdsIn(url_get.id_start, url_get.id_end)) < block_size

---------------------------------------------------------------------------
(* Properties of the exports of a whole run.                               *)

\* Every computation step of the run has completed.
AllStepsCompleted == pc \in {"export_reliability", "returned"}

\* C17, as claimed: no export file is written before every computation step
\* has completed, so a run that fails has written no output file.
C17_ExportsOnlyAtTheEnd ==
    /\ written # {} => AllStepsCompleted
    /\ pc = "error" => written = {}

\* The steps that produce the content of an export file have completed and
\* the export that follows them has been passed.
ExportPassed(k) ==
    CASE k \in {"raw_speed_data", "tmc_data"} ->
             \/ pc \notin {"call", "export_raw", "error"}
             \/ pc = "error" /\ main_data # {}
      [] k = "summary_data" ->
             \/ pc \in {"score", "score_geoms", "export_reliability", "returned"}
             \/ pc = "error" /\ raised = "IndexError"
      [] k = "reliability_data" -> pc = "returned"

\* C17, amended: each requested export file is written right after the
\* steps that produce its content (the two pickles after reading, the
\* summary GeoPackage after summarising and geometry resolution, the
\* reliability GeoPackage after scoring and geometry resolution), never
\* before them, and a run that fails later keeps the files written so far.
C17_ExportsFollowTheirSteps ==
    written = {k \in ExportKinds : export_flags[k] /\ ExportPassed(k)}

\* A run that failed in the reliability scoring after it had written the two
\* pickles and the summary GeoPackage.
C17_Witness ==
    /\ pc = "error"
    /\ raised = "IndexError"
    /\ written = {"raw_speed_data", "tmc_data", "summary_data"}

\* The columns asked for by cols, as a set.
RequestedCols == {query_args.cols[1][i] : i \in DOMAIN query_args.cols[1]}

\* The function went through its last step, the selection of the columns.
ColumnsSelected ==
    \/ pc = "arc_done" /\ all_objectids # <<>>
    \/ pc = "error" /\ raised = "KeyError"

\* C18: called with cols set to field names of the layer (columns not
\* renamed), the function returns without raising, and the columns of the
\* result are the requested columns, the object-ID column and the geometry.
C18_RequestedColumnsReturned ==
    (ColumnsSelected /\ query_args.cols # NaN /\ ~query_args.rename_columns_with_alias) =>
        /\ pc = "arc_done"
        /\ {geodata_final.columns[i] : i \in DOMAIN geodata_final.columns} =
               RequestedCols \cup {"OBJECTID", "geometry"}

\* C19: a feature query that the server answered with an error, for the
\* first page or for a later one, leaves the download in a retry loop: it
\* never ends the download with an unhandled failure or with the page
\* skipped.
C19_ErrorAnswersAreRetried ==
    (url_get # <<>> /\ url_get.error) => (pc = "probe" /\ raised = "")

---------------------------------------------------------------------------
(* Properties of the completeness filter of the two scores.                *)

\* The required cohorts in which the group (code, origin) has a summary
\* with a defined ratio.
CohortsOf(code, origin, names) ==
    {s.summary_type : s \in {s \in all_summaries_concat :
                                /\ s.tmc_code = code
                                /\ s.data_origin = origin
                                /\ s.summary_type \in names
                                /\ s.ttime_50p > 0}}

\* In one table: a row with a Reliability belongs to a group with all the
\* required cohorts, and every row of a group that lacks one has null
\* metrics.
OnlyCompleteGroupsScored(table, names) ==
    \A r \in table :
        /\ NotNull(r.Reliability) => CohortsOf(r.tmc_code, r.data_origin, names) = names
        /\ CohortsOf(r.tmc_code, r.data_origin, names) # names =>
               /\ r.Reliability_Type = NaN
               /\ r.RawDataRows = NaN
               /\ r.SummaryCount = NaN
               /\ r.Reliability = NaN
               /\ r.Reliable = NaN

\* C20: a (tmc_code, data_origin) group has a non-null Reliability only if
\* it has a summary in every required cohort (am_peak, midday, pm_peak and
\* weekends for mixed traffic, these and overnight for trucks); a group that
\* lacks one is in the output as a re-added row with null metrics only.
C20_OnlyCompleteGroupsScored ==
    Returned =>
        /\ OnlyCompleteGroupsScored(MixedTable, {"am_peak", "midday", "pm_peak", "weekends"})
        /\ OnlyCompleteGroupsScored(TruckTable,
               {"am_peak", "midday", "pm_peak", "overnight", "weekends"})

\* A group some but not all of whose required cohorts have a summary.
PartialGroup(origins, names) ==
    \E s \in all_summaries_concat :
        /\ s.data_origin \in origins
        /\ CohortsOf(s.tmc_code, s.data_origin, names) # {}
        /\ CohortsOf(s.tmc_code, s.data_origin, names) # names

\* A returned mixed-traffic table with a scored group next to a group that
\* lacks a required cohort and is in the table with null metrics.
C20_Witness ==
    /\ Returned
    /\ PartialGroup(MixedOrigins, MixedSummaryTypes)
    /\ \E r \in MixedTable : NotNull(r.Reliability)
    /\ \E r \in MixedTable :
           /\ r.Reliability = NaN
           /\ CohortsOf(r.tmc_code, r.data_origin, MixedSummaryTypes)
                  \notin {{}, MixedSummaryTypes}

---------------------------------------------------------------------------
(* Properties of read_batch_of_raw_data.                                   *)

BatchReturned == pc = "batch_done"

\* The raw data CSV a returned row was read from.
FileOf(r) == ZipOf(r.data_origin[1]).raw

\* The row is the first row of its file with its tmc_code and time stamp.
FirstOccurrence(r) ==
    /\ r.line \in DOMAIN FileOf(r)
    /\ FileOf(r)[r.line] = Raw(r.tmc_code, r.measurement_tstamp, r.speed)
    /\ \A j \in 1 .. r.line - 1 :
           ~ /\ FileOf(r)[j].tmc_code = r.tmc_code
             /\ FileOf(r)[j].measurement_tstamp = r.measurement_tstamp

KeptWhole(r) == r.road # NaN

\* The retained rows of one zip when its raw data CSV is read in one piece.
WholeFile(z) ==
    LET table  == ReadTmcData(z.tmc, z.data_origin, road_str)
        merged == [i \in DOMAIN z.raw |-> MergeLeft(z.raw[i], i, table)]
    IN  [main_data |-> DropDuplicates(SelectSeq(merged, KeptWhole)),
         main_tmc_data |-> table]

\* The result of the batch when every raw data CSV is read in one piece.
WholeBatch ==
    LET parts == [i \in DOMAIN zip_contents |-> WholeFile(zip_contents[i])]
    IN  [main_data |->
            SelectSeq(DropDuplicates(PdConcat([i \in DOMAIN parts |-> parts[i].main_data])),
                      SpeedNotNa),
         main_tmc_data |-> UNION {parts[i].main_tmc_data : i \in DOMAIN parts}]

\* C28: main_data (its rows and their order) and main_tmc_data do not depend
\* on chunk_size: for every chunk size they are what reading each raw data
\* CSV in one piece gives, so any two chunk sizes give the same result.
C28_ResultIndependentOfChunkSize ==
    BatchReturned =>
        /\ main_data = WholeBatch.main_data
        /\ main_tmc_data = WholeBatch.main_tmc_data

\* Both zips read in chunks of one row, one of them with a file of the
\* longest length in which two rows of one key come in different chunks.
C28_Witness ==
    /\ BatchReturned
    /\ chunk_size = 1
    /\ Len(zip_contents) = 2
    /\ Len(main_data) >= 3
    /\ \E i \in DOMAIN zip_contents :
           /\ Len(zip_contents[i].raw) = MaxBatchRows
           /\ \E j, k \in DOMAIN zip_contents[i].raw :
                  /\ j < k
                  /\ zip_contents[i].raw[j].tmc_code = zip_contents[i].raw[k].tmc_code
                  /\ zip_contents[i].raw[j].measurement_tstamp =
                         zip_contents[i].raw[k].measurement_tstamp

---------------------------------------------------------------------------
(* Properties of get_filter.                                               *)

\* C22: every call of get_filter returns the membership mask of the rows of
\* the main_data passed in that call, with one entry for each of its rows,
\* also when the instance was used on another main_data before.
C22_FilterOfThePassedData ==
    filter_returned # NaN =>
        /\ Len(filter_returned[1]) = Len(main_data)
        /\ \A i \in DOMAIN main_data :
               filter_returned[1][i] =
                   GetFilter(self.window, FilterColumn(self, main_data[i]))

---------------------------------------------------------------------------
(* Properties of query_arcgis_feature_server_listing.                      *)

\* The object ID lists of the queries performed so far, one after another.
RECURSIVE QueriedLists(_)
QueriedLists(parts) ==
    IF parts = <<>> THEN <<>> ELSE Head(parts).objectid_list \o QueriedLists(Tail(parts))

\* The queries performed so far are non-empty slices of the ID list that
\* follow one another from its start up to query_start; when the loop has
\* ended they cover the list, and no object ID is left for the warning.
BatchesAreConsecutiveSlices ==
    pc \in {"list_loop", "list_done"} =>
        /\ \A k \in DOMAIN geodata_parts : geodata_parts[k].objectid_list # <<>>
        /\ QueriedLists(geodata_parts) = SubSeq(all_objectids, 1, query_start)
        /\ query_end > Len(all_objectids) =>
               /\ query_start = Len(all_objectids)
               /\ \A i \in DOMAIN all_objectids :
                      /\ all_objectids[i] \in ids_queried
                      /\ Cardinality({k \in DOMAIN geodata_parts :
                             \E j \in DOMAIN geodata_parts[k].objectid_list :
                                 geodata_parts[k].objectid_list[j] = all_objectids[i]}) = 1

\* C23: the listing download terminates, by returning or by raising, and its
\* queries are consecutive, non-overlapping slices of the ID list that cover
\* it when the loop ends: each object ID is in exactly one performed query
\* and the 'was not queried' warning is never reached.
C23_ListingTerminatesAndCoversEveryId ==
    /\ []BatchesAreConsecutiveSlices
    /\ <>(pc \in {"list_done", "error"})

\* A returned download of several queries, one of them of several object
\* IDs, cut by maxRecordCount or by the length of the URL.
C23_Witness ==
    /\ pc = "list_done"
    /\ Len(geodata_parts) >= 2
    /\ \E k \in DOMAIN geodata_parts : Len(geodata_parts[k].objectid_list) >= 2
    /\ Len(geodata_parts[1].objectid_list) + 1 < feature_server.maxRecordCount

---------------------------------------------------------------------------
(* Properties of which_zip_is_which_data_source: the zips left out.        *)

\* The data origins whose description the first line of the zip's
\* Contents.txt carries.
OriginsOf(f) ==
    {o \in DOMAIN dict_for_origin_match :
        /\ "Contents.txt" \in Members(f)
        /\ f.contents # <<>>
        /\ Contains(f.contents[1], dict_for_origin_match[o])}

DataCsvs(f) == Members(f) \ {"Contents.txt", "TMC_Identification.csv"}

\* A zip file of the folder that is no RITIS export of a known data source.
NoExport(f) ==
    /\ f.is_file
    /\ EndsWithZip(f.name)
    /\ \/ "Contents.txt" \notin Members(f)
       \/ OriginsOf(f) = {}
       \/ DataCsvs(f) = {}

\* C24: a zip file of the folder that is no RITIS export of a known data
\* source never makes the function fail, and no entry of the result names it.
C24_OtherZipsAreLeftOut ==
    (\E f \in FolderFiles : NoExport(f)) =>
        /\ raised = ""
        /\ pc = "zip_done" =>
               \A f \in FolderFiles : NoExport(f) =>
                   \A o \in EntryOrigins : data_paths_dict[o][1].zip_file # f.name

\* C25: every zip file of the folder whose Contents.txt first line carries
\* the description of a data origin is in the returned mapping, under that
\* data origin and with a data CSV of its own, also when other zips of the
\* folder belong to the same data origin.
C25_EveryMatchingZipIsMapped ==
    pc = "zip_done" =>
        \A f \in FolderFiles :
            (f.is_file /\ EndsWithZip(f.name) /\ DataCsvs(f) # {}) =>
                \A o \in OriginsOf(f) :
                    /\ data_paths_dict[o] # NaN
                    /\ data_paths_dict[o][1].zip_file = f.name
                    /\ data_paths_dict[o][1].raw_data_file \in DataCsvs(f)

---------------------------------------------------------------------------
(* The analysis run on data of several data origins that share TMC codes.  *)

\* Observations that fill the four mixed-traffic cohorts of (inrix, T1) and
\* of (npmrds_from_inrix_trucks_and_passveh, T2), the five truck cohorts of
\* (npmrds_from_inrix_trucks, T1), and single observations of other groups.
OriginGroups ==
    { { Obs("inrix", "T1", Stamp(2019, 1, 1, 6, 0), 10),
        Obs("inrix", "T1", Stamp(2019, 1, 1, 10, 0), 10),
        Obs("inrix", "T1", Stamp(2019, 1, 1, 16, 0), 10),
        Obs("inrix", "T1", Stamp(2019, 1, 5, 12, 0), 10) },
      { Obs("npmrds_from_inrix_trucks_and_passveh", "T2", Stamp(2019, 1, 1, 6, 0), 10),
        Obs("npmrds_from_inrix_trucks_and_passveh", "T2", Stamp(2019, 1, 1, 10, 0), 10),
        Obs("npmrds_from_inrix_trucks_and_passveh", "T2", Stamp(2019, 1, 1, 16, 0), 10),
        Obs("npmrds_from_inrix_trucks_and_passveh", "T2", Stamp(2019, 1, 5, 12, 0), 10) },
      { Obs("npmrds_from_inrix_trucks", "T1", Stamp(2019, 1, 1, 6, 0), 20),
        Obs("npmrds_from_inrix_trucks", "T1", Stamp(2019, 1, 1, 10, 0), 20),
        Obs("npmrds_from_inrix_trucks", "T1", Stamp(2019, 1, 1, 16, 0), 20),
        Obs("npmrds_from_inrix_trucks", "T1", Stamp(2019, 1, 1, 20, 0), 20),
        Obs("npmrds_from_inrix_trucks", "T1", Stamp(2019, 1, 5, 12, 0), 20) },
      { Obs("npmrds_from_inrix_trucks_and_passveh", "T1", Stamp(2019, 1, 1, 6, 0), 10) },
      { Obs("inrix", "T2", Stamp(2019, 1, 1, 6, 0), 10) },
      { Obs("npmrds_from_inrix_trucks", "T2", Stamp(2019, 1, 1, 6, 0), 20) },
      { Obs("npmrds_from_inrix_pass_vehicles", "T3", Stamp(2020, 12, 31, 7, 0), 10) } }

OriginInputs == {UNION G : G \in SUBSET OriginGroups} \ {{}}

InitOrigins ==
    /\ pc = "fix"
    /\ main_data \in OriginInputs
    /\ PipeIdle
    /\ ReadIdle
    /\ BatchIdle
    /\ OtherIdle

SpecOrigins == InitOrigins /\ [][Next]_vars

---------------------------------------------------------------------------
(* Properties of the rows re-added by calculate_standard_reliabilities.    *)

\* The (data_origin, tmc_code) pairs of main_data.
ObservedPairs == {<<o.data_origin, o.tmc_code>> : o \in main_data}

\* Every re-added row of the table has a data origin of the table's type
\* under which its TMC code has observations.
ReAddedUnderObservedOrigin(table, origins) ==
    \A r \in table :
        r.Reliability_Type = NaN =>
            /\ r.data_origin \in origins
            /\ <<r.data_origin, r.tmc_code>> \in ObservedPairs

\* C26: every row re-added with null metrics carries a data_origin under
\* which its tmc_code has observations in main_data, and that data_origin
\* belongs to the reliability type of the table.
C26_ReAddedUnderObservedOrigin ==
    Returned =>
        /\ ReAddedUnderObservedOrigin(MixedTable, MixedOrigins)
        /\ ReAddedUnderObservedOrigin(TruckTable, TruckOrigins)

\* Every observed pair with a data origin of the table's type has a row.
EveryPairHasRow(table, origins) ==
    \A p \in ObservedPairs :
        p[1] \in origins =>
            \E r \in table : r.data_origin = p[1] /\ r.tmc_code = p[2]

\* C27: for every (data_origin, tmc_code) pair of main_data whose data
\* origin is scored by an enabled reliability type, the returned table of
\* that type has a row with exactly that pair.
C27_EveryScoredOriginPairHasRow ==
    Returned =>
        /\ calc_flags[1] => EveryPairHasRow(MixedTable, MixedOrigins)
        /\ calc_flags[2] => EveryPairHasRow(TruckTable, TruckOrigins)

---------------------------------------------------------------------------
(* Properties of filter_group_summarize_fhwa: the five cohorts together.   *)

FiveCohorts == {"am_peak", "midday", "pm_peak", "overnight", "weekends"}

\* count_obs of the summary row of the pair in the cohort, 0 without a row.
CountObs(p, nm) ==
    LET rows == {s \in all_summaries_concat :
                    s.data_origin = p[1] /\ s.tmc_code = p[2] /\ s.summary_type = nm}
    IN  IF rows = {} THEN 0 ELSE (CHOOSE s \in rows : TRUE).count_obs

\* The observation belongs to the cohort by its time of day and day of week.
InCohort(o, nm) ==
    CASE nm = "am_peak"   -> InAmPeak(o) /\ o.day_of_week \in 0 .. 4
      [] nm = "midday"    -> InMidday(o) /\ o.day_of_week \in 0 .. 4
      [] nm = "pm_peak"   -> InPmPeak(o) /\ o.day_of_week \in 0 .. 4
      [] nm = "overnight" -> InOvernight(o)
      [] nm = "weekends"  -> ~InOvernight(o) /\ o.day_of_week \in 5 .. 6

\* C29: in the output of filter_group_summarize_fhwa the five cohorts share
\* no observation, and for every (data_origin, tmc_code) their count_obs add
\* up to the count_obs of alltime, which counts all its observations; the
\* pair has a row for a cohort exactly when it has an observation in it.
C29_FiveCohortsPartitionObservations ==
    Summarized =>
        /\ \A a, b \in FiveCohorts :
               a # b => summary_filter[a] \cap summary_filter[b] = {}
        /\ \A p \in ObservedPairs :
               /\ CountObs(p, "alltime") =
                      Cardinality({o \in main_data : <<o.data_origin, o.tmc_code>> = p})
               /\ CountObs(p, "am_peak") + CountObs(p, "midday") + CountObs(p, "pm_peak")
                      + CountObs(p, "overnight") + CountObs(p, "weekends")
                  = CountObs(p, "alltime")
               /\ \A nm \in FiveCohorts :
                      CountObs(p, nm) > 0 <=>
                          \E o \in main_data :
                              <<o.data_origin, o.tmc_code>> = p /\ InCohort(o, nm)

====
